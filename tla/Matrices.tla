--------------------------------- MODULE Matrices --------------------------------
(***************************************************************************)
(* CraftBlock's vectors and matrices (math/vectors.h, math/matrix.h and      *)
(* their .cpp), as far as the program uses them.                             *)
(*                                                                          *)
(* The numbers are whole.  A matrix works on homogeneous coordinates, where  *)
(* a positive factor makes no difference: one with fractions is given times  *)
(* their denominator.  It is the tuple of its columns, each of four numbers, *)
(* like BaseMat::memory.                                                     *)
(***************************************************************************)
EXTENDS Integers, Sequences

Plus(u, v)  == [i \in 1 .. 3 |-> u[i] + v[i]]
Minus(u, v) == [i \in 1 .. 3 |-> u[i] - v[i]]
Times(n, v) == [i \in 1 .. 3 |-> n * v[i]]

\* Mutant of CrossProduct: the other factor first, as for a left-handed system.
CrossProduct_Left(a, b) ==
    <<a[3] * b[2] - a[2] * b[3], a[1] * b[3] - a[3] * b[1], a[2] * b[1] - a[1] * b[2]>>

CrossProduct(a, b) ==
    <<a[2] * b[3] - a[3] * b[2], a[3] * b[1] - a[1] * b[3], a[1] * b[2] - a[2] * b[1]>>

\* What the constructors of vectors leave a matrix with.
NoMatrix == [c \in 1 .. 4 |-> <<0, 0, 0, 0>>]

\* BaseMat::operator *.
Product(a, b) ==
    [c \in 1 .. 4 |-> [r \in 1 .. 4 |->
        a[1][r] * b[c][1] + a[2][r] * b[c][2] + a[3][r] * b[c][3] + a[4][r] * b[c][4]]]

\* The vertex shader: MVP * vec4(aPos, 1.0).
Transformed(m, p) ==
    [r \in 1 .. 4 |-> m[1][r] * p[1] + m[2][r] * p[2] + m[3][r] * p[3] + m[4][r]]

\* A translation by p / n.
Translation(p, n) == <<<<n, 0, 0, 0>>, <<0, n, 0, 0>>, <<0, 0, n, 0>>, <<p[1], p[2], p[3], n>>>>

\* sinf and cosf at quarter turns.
Cosine(quarters) == <<1, 0, -1, 0>>[1 + (quarters % 4)]
Sine(quarters)   == <<0, 1, 0, -1>>[1 + (quarters % 4)]

RotationX(q) ==
    <<<<1, 0, 0, 0>>, <<0, Cosine(q), Sine(q), 0>>, <<0, -Sine(q), Cosine(q), 0>>, <<0, 0, 0, 1>>>>
RotationY(q) ==
    <<<<Cosine(q), 0, -Sine(q), 0>>, <<0, 1, 0, 0>>, <<Sine(q), 0, Cosine(q), 0>>, <<0, 0, 0, 1>>>>
RotationZ(q) ==
    <<<<Cosine(q), Sine(q), 0, 0>>, <<-Sine(q), Cosine(q), 0, 0>>, <<0, 0, 1, 0>>, <<0, 0, 0, 1>>>>

\* Mat4::Perspective, times aspect and f - n; a is 1 / tan(y_fov / 2).
Perspective(a, aspect, n, f) ==
    <<<<a * (f - n), 0, 0, 0>>,
      <<0, a * aspect * (f - n), 0, 0>>,
      <<0, 0, -aspect * (f + n), -aspect * (f - n)>>,
      <<0, 0, -2 * aspect * f * n, 0>>>>

\* LookAt from eye / n in the direction f / n, up being the y axis: times n^2, and n
\* for the translation.  Normalize returns its result, which LookAt does not take:
\* s and t are as long as f is level.
Up == <<0, 1, 0>>
LookAt(eye, f, n) ==
    LET s == CrossProduct(f, Up)
        t == CrossProduct(s, f)
        view == [c \in 1 .. 4 |-> IF c = 4 THEN <<0, 0, 0, n * n>>
                                  ELSE <<n * s[c], t[c], -n * f[c], 0>>]
    IN  Product(view, Translation(Times(-1, eye), n))
================================================================================
