-------------------------------- MODULE Scheme --------------------------------
(***************************************************************************)
(* The revocation scheme of libbswabe-0.9.  An element of G1 is the        *)
(* exponent of the generator g, one of GT that of e(g, g), so a product is *)
(* a sum, a power and a pairing are products.  Exponents are integers that *)
(* are compared modulo the order of the groups.  What element_random draws *)
(* is a parameter: a function from the names of the draws to exponents.    *)
(***************************************************************************)
EXTENDS Integers, SequencesExt

CONSTANTS
    Order,          \* of the groups, a prime (TYPE_A_PARAMS)
    NoMessage,      \* bswabe_dec returns 0
    Garbage         \* an element that is not the message

ASSUME SchemeAssumption ==
    Order \in Nat /\ Order > 1 /\ \A d \in 2 .. Order - 1 : Order % d # 0

Invert(x) == CHOOSE y \in 1 .. Order - 1 : (x * y) % Order = 1

-----------------------------------------------------------------------------
(* core.c *)

bswabe_setup(draw) ==
    LET alpha == draw.alpha  beta == draw.beta  a1 == draw.a1  a2 == draw.a2
        tao1 == draw.v + draw.v1 * a1
        tao2 == draw.v + draw.v2 * a2
    IN [msk |-> [g |-> 1, g_alpha |-> alpha, g_alpha_a1 |-> alpha * a1,
                 v |-> draw.v, v1 |-> draw.v1, v2 |-> draw.v2,
                 alpha |-> alpha, beta |-> beta, a1 |-> a1, a2 |-> a2],
        pub |-> [g |-> 1, n |-> 2, g_b |-> beta, g_a1 |-> a1, g_a2 |-> a2,
                 g_ba1 |-> beta * a1, g_ba2 |-> beta * a2,
                 tao1 |-> tao1, tao2 |-> tao2,
                 tao1_b |-> tao1 * beta, tao2_b |-> tao2 * beta,
                 w |-> draw.w, h |-> draw.h, pair |-> alpha * a1 * beta,
                 alpha |-> alpha, a1 |-> a1, a2 |-> a2, beta |-> beta]]

bswabe_keygen(pub, msk, id, draw) ==
    LET d == draw.d1 + draw.d2 IN
    [d_1 |-> msk.g_alpha_a1 + msk.v * d,
     d_2 |-> msk.v1 * d + msk.g * draw.z1 - msk.g * msk.alpha,
     d_3 |-> -(pub.g_b * draw.z1),
     d_4 |-> msk.v2 * d + msk.g * draw.z2,
     d_5 |-> -(pub.g_b * draw.z2),
     d_6 |-> pub.g * (draw.d2 * msk.beta),
     d_7 |-> pub.g * draw.d1,
     k   |-> (pub.w * id + pub.h) * draw.d1]

\* Mutant: w and h change places.
setIdSwapped(pub, ids, t) ==
    [i \in DOMAIN ids |-> [c_i1 |-> pub.g * t[i],
                           c_i2 |-> (pub.h * ids[i] + pub.w) * t[i],
                           id   |-> ids[i]]]

\* One part of the cipher per piece of the revocation string.
setId(pub, ids, t) ==
    [i \in DOMAIN ids |-> [c_i1 |-> pub.g * t[i],
                           c_i2 |-> (pub.w * ids[i] + pub.h) * t[i],
                           id   |-> ids[i]]]

\* The draws of bswabe_enc are s1, s2 and one per piece, which its number names.
bswabe_enc(pub, msg, ids, draw) ==
    LET s == draw["s1"] + draw["s2"]
        t == [i \in DOMAIN ids |-> draw[ToString(i)]]
        sum == SumFunction(t)
    IN [c_0 |-> [message |-> msg, mask |-> pub.alpha * pub.a1 * pub.beta * draw["s2"]],
        c_1 |-> pub.g * pub.beta * s,
        c_2 |-> pub.g * (pub.beta * pub.a1) * draw["s1"],
        c_3 |-> pub.g * pub.a1 * draw["s1"],
        c_4 |-> pub.g * (pub.beta * pub.a2) * draw["s2"],
        c_5 |-> pub.g * pub.a2 * draw["s2"],
        c_6 |-> pub.tao1 * draw["s1"] + pub.tao2 * draw["s2"],
        c_7 |-> pub.tao1 * pub.beta * draw["s1"] + pub.tao2 * pub.beta * draw["s2"]
                - pub.w * sum,
        attr |-> setId(pub, ids, t)]

A3(prv, cph) ==
    (cph.c_1 * prv.d_1 + cph.c_2 * prv.d_2 + cph.c_3 * prv.d_3
        + cph.c_4 * prv.d_4 + cph.c_5 * prv.d_5)
    - (cph.c_6 * prv.d_6 + cph.c_7 * prv.d_7)

A4(prv, cph, id) ==
    SumFunction([i \in DOMAIN cph.attr |->
                    (cph.attr[i].c_i1 * prv.k - cph.attr[i].c_i2 * prv.d_7)
                        * Invert((id - cph.attr[i].id) % Order)])

\* Of the public key only the pairing is used, which is the same in all of them.
bswabe_dec(prv, cph, id) ==
    IF \E i \in DOMAIN cph.attr : (id - cph.attr[i].id) % Order = 0 THEN NoMessage
    ELSE IF (cph.c_0.mask - (A3(prv, cph) - A4(prv, cph, id))) % Order = 0
         THEN cph.c_0.message ELSE Garbage

-----------------------------------------------------------------------------
(* misc.c: a file is the sequence of its elements, each with its length *)

Serialize(x, fields) == [i \in DOMAIN fields |-> x[fields[i]]]

Unserialize(b, fields) ==
    [f \in ToSet(fields) |-> b[CHOOSE i \in DOMAIN fields : fields[i] = f]]

PubFields == <<"g", "n", "g_b", "g_a1", "g_a2", "g_ba1", "g_ba2", "tao1", "tao2",
               "tao1_b", "tao2_b", "w", "h", "pair", "alpha", "a1", "a2", "beta">>
MskFields == <<"g", "g_alpha", "g_alpha_a1", "v", "v1", "v2", "alpha", "beta", "a1", "a2">>
PrvFields == <<"d_1", "d_2", "d_3", "d_4", "d_5", "d_6", "d_7", "k">>
PartFields == <<"c_i1", "c_i2", "id">>
CphFields == <<"c_0", "c_1", "c_2", "c_3", "c_4", "c_5", "c_6", "c_7">>

bswabe_pub_serialize(pub) == Serialize(pub, PubFields)
bswabe_pub_unserialize(b) == Unserialize(b, PubFields)
bswabe_msk_serialize(msk) == Serialize(msk, MskFields)
bswabe_msk_unserialize(b) == Unserialize(b, MskFields)
bswabe_prv_serialize(prv) == Serialize(prv, PrvFields)
bswabe_prv_unserialize(b) == Unserialize(b, PrvFields)

\* The number of the parts, then the parts.
serialize_attr(attr) ==
    <<Len(attr)>> \o FlattenSeq([i \in DOMAIN attr |-> Serialize(attr[i], PartFields)])
unserialize_attr(b) ==
    [i \in 1 .. b[1] |-> Unserialize(SubSeq(b, 3 * i - 1, 3 * i + 1), PartFields)]

bswabe_cph_serialize(cph) == Serialize(cph, CphFields) \o serialize_attr(cph.attr)
bswabe_cph_unserialize(b) ==
    LET elements == Unserialize(b, CphFields) IN
    [f \in DOMAIN elements \cup {"attr"} |->
        IF f = "attr" THEN unserialize_attr(SubSeq(b, 9, Len(b))) ELSE elements[f]]

=============================================================================
