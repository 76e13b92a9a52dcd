----------------------------- MODULE Collision -----------------------------
(***************************************************************************)
(* collision.c: inputs and kernels of the collision workload.  Q3.12       *)
(* values have W - 4 fractional bits and Q16.16 values W, as in the code   *)
(* with W = 16.                                                            *)
(***************************************************************************)
EXTENDS Fixed

Axes == {"x", "y", "z"}
Vectors(V) == [Axes -> V]

\* rng_coord(): [-2, 2), and rng_radius(): [0, 0.5).
Coords == -(2^(W - 3)) .. 2^(W - 3) - 1
Radii == 0 .. 2^(W - 5) - 1

\* Offset added to "a" when collision_generate() puts "b" close to it.
Offsets == -(2^(W - 6)) .. 2^(W - 6) - 1

\* to_q16(): 4 more fractional bits, which rng() chooses anew for every value.
LowBits == LET Of == [c : Vectors(0 .. 15), r : 0 .. 15] IN [a : Of, b : Of]
to_q16(v, low) == Shl(v, 4) + low
ToQ16(s, low) == [c |-> [k \in Axes |-> to_q16(s.c[k], low.c[k])], r |-> to_q16(s.r, low.r)]

\* The two spheres of one pair: b is near a, or anywhere.
collision_generate(a, near, far, offset, ra, rb) ==
    [a |-> [c |-> a, r |-> ra],
     b |-> [c |-> IF near THEN [k \in Axes |-> S(W, a[k] + offset[k])] ELSE far,
            r |-> rb]]

Long(x) == S(2 * W, x)

k_dot3(a, b) == Long(a["x"] * b["x"] + a["y"] * b["y"] + a["z"] * b["z"])

k_cross3(a, b) ==
    [k \in Axes |->
        LET i == CASE k = "x" -> "y" [] k = "y" -> "z" [] k = "z" -> "x"
            j == CASE k = "x" -> "z" [] k = "y" -> "x" [] k = "z" -> "y"
        IN  Long(a[i] * b[j] - a[j] * b[i])]

k_dot3_q16(a, b) == Long(q16_mul(a.c["x"], b.c["x"]) + q16_mul(a.c["y"], b.c["y"])
                         + q16_mul(a.c["z"], b.c["z"]))

\* Test of k_sphere(): the distance of the centers and the sum of the radii,
\* squared.
SphereHit(p) ==
    LET d == [k \in Axes |-> S(W, p.a.c[k] - p.b.c[k])]
        rs == S(W, p.a.r + p.b.r)
    IN  k_dot3(d, d) <= Long(rs * rs)

abs_diff(a, b) == LET d == S(W, a - b) IN IF d < 0 THEN S(W, -d) ELSE d

\* Test of k_aabb(): the boxes overlap on the three axes.
AabbHit(p) == \A k \in Axes : abs_diff(p.a.c[k], p.b.c[k]) <= S(W, p.a.r + p.b.r)

SphereHitQ16(p, low) ==
    LET a == ToQ16(p.a, low.a)
        b == ToQ16(p.b, low.b)
        d == [k \in Axes |-> Long(a.c[k] - b.c[k])]
        rs == Long(a.r + b.r)
    IN  k_dot3_q16([c |-> d], [c |-> d]) <= q16_mul(rs, rs)

\* Mutant: the word isn't cleared after it is stored.
MASK_PUSHKept(st, hit) ==
    LET word == IF hit THEN BitOr(W, st.word, st.bit) ELSE st.word
        bit == U(W, Shl(st.bit, 1))
    IN  IF bit = 0 THEN [mask |-> Append(st.mask, word), word |-> word, bit |-> 1]
        ELSE [mask |-> st.mask, word |-> word, bit |-> bit]

\* MASK_PUSH: the word is stored when "bit" has left it.
MASK_PUSH(st, hit) ==
    LET word == IF hit THEN BitOr(W, st.word, st.bit) ELSE st.word
        bit == U(W, Shl(st.bit, 1))
    IN  IF bit = 0 THEN [mask |-> Append(st.mask, word), word |-> 0, bit |-> 1]
        ELSE [mask |-> st.mask, word |-> word, bit |-> bit]

\* The mask that k_sphere(), k_aabb() or k_sphere_q16() builds from the tests.
MaskOf(hits) ==
    LET push[i \in 0 .. Len(hits)] ==
            IF i = 0 THEN [mask |-> <<>>, word |-> 0, bit |-> 1]
            ELSE MASK_PUSH(push[i - 1], hits[i])
    IN  push[Len(hits)].mask

k_sphere(pairs) == MaskOf([i \in 1 .. Len(pairs) |-> SphereHit(pairs[i])])
k_aabb(pairs) == MaskOf([i \in 1 .. Len(pairs) |-> AabbHit(pairs[i])])
k_sphere_q16(pairs, lows) == MaskOf([i \in 1 .. Len(pairs) |-> SphereHitQ16(pairs[i], lows[i])])

-----------------------------------------------------------------------------
(* What the kernels promise, on unbounded integers. *)

Near(p) == LET d(k) == p.a.c[k] - p.b.c[k]
           IN  d("x") * d("x") + d("y") * d("y") + d("z") * d("z")
               <= (p.a.r + p.b.r) * (p.a.r + p.b.r)
Overlap(p) == \A k \in Axes : Abs(p.a.c[k] - p.b.c[k]) <= p.a.r + p.b.r

\* Bit i % W of word i / W of a mask is the result of test i.
MaskShows(mask, hits) ==
    /\ Len(mask) = Len(hits) \div W
    /\ \A i \in 0 .. Len(hits) - 1 :
          (Bit(mask[i \div W + 1], i % W) = 1) = hits[i + 1]

\* k_sphere_q16() finds every pair of its own Q16.16 spheres that touches, and
\* its other hits are less than the rounding of its three products away from
\* touching.  The low bits move both spheres, so a pair that k_sphere() finds may
\* be missed, but none that still touches when every distance is one unit longer.
CloseQ16(p, low) ==
    LET a == ToQ16(p.a, low.a)
        b == ToQ16(p.b, low.b)
        d(k) == a.c[k] - b.c[k]
        rs == a.r + b.r
        squares == d("x") * d("x") + d("y") * d("y") + d("z") * d("z")
        longer(k) == Abs(p.a.c[k] - p.b.c[k]) + 1
    IN  /\ squares <= rs * rs => SphereHitQ16(p, low)
        /\ SphereHitQ16(p, low) => squares < rs * rs + 3 * 2^W
        /\ longer("x") * longer("x") + longer("y") * longer("y") + longer("z") * longer("z")
               <= (p.a.r + p.b.r) * (p.a.r + p.b.r) => SphereHitQ16(p, low)

\* The kernels on 16-bit coordinates compute the exact products and tests, and
\* the masks hold the result of every test at its place.
CollisionExact(pairs, lows) ==
    /\ \A i \in 1 .. Len(pairs) :
          LET a == pairs[i].a.c
              b == pairs[i].b.c
          IN  /\ k_dot3(a, b) = a["x"] * b["x"] + a["y"] * b["y"] + a["z"] * b["z"]
              /\ k_cross3(a, b)["x"] = a["y"] * b["z"] - a["z"] * b["y"]
              /\ k_cross3(a, b)["y"] = a["z"] * b["x"] - a["x"] * b["z"]
              /\ k_cross3(a, b)["z"] = a["x"] * b["y"] - a["y"] * b["x"]
              /\ CloseQ16(pairs[i], lows[i])
    /\ MaskShows(k_sphere(pairs), [i \in 1 .. Len(pairs) |-> Near(pairs[i])])
    /\ MaskShows(k_aabb(pairs), [i \in 1 .. Len(pairs) |-> Overlap(pairs[i])])
    /\ MaskShows(k_sphere_q16(pairs, lows),
                 [i \in 1 .. Len(pairs) |-> SphereHitQ16(pairs[i], lows[i])])
=============================================================================
