------------------------------- MODULE MCWire -------------------------------
(***************************************************************************)
(* A TLC instance of Wire: two neighbouring channels and the providers     *)
(* that configs.js could enable.                                           *)
(***************************************************************************)
EXTENDS Wire

Fixed(first) == <<first, 96, 3, 232, 11, 22, 33, 44, 1, 2, 3, 4>>

\* As ffmpeg sends them, with two CSRCs, and with an extension of one word.
MCMessages ==
    {Fixed(128) \o <<65, 154, 0>>,
     Fixed(130) \o <<9, 9, 9, 9, 8, 8, 8, 8>> \o <<71, 255>>,
     Fixed(144) \o <<190, 222, 0, 1, 5, 6, 7, 8>> \o <<71, 16>>}

\* Different for each key, and no byte of it is 0, so that what is encrypted differs.
MCKeystreams ==
    [c \in ChannelIds |-> [k \in KeyIds |-> [i \in 1 .. Mtu |-> i + c + 3 * k - 1]]]

=============================================================================
