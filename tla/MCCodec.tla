------------------------------- MODULE MCCodec ------------------------------
(***************************************************************************)
(* An instance of the codec for TLC.  The contents and lists have the sizes*)
(* at which a message fills a partition exactly, or needs one more.        *)
(***************************************************************************)
EXTENDS Codec

Pattern(n, seed) == [i \in 1 .. n |-> (7 * i + seed) % 256]

\* Ids with bytes below 16 at both ends, and zero
Ids == {Pattern(16, 250), Zeros(16)}
UserNameSet == {<<65>>, [i \in 1 .. 254 |-> 1 + (i % 127)]}
Keys == {Pattern(160, 3)}
Sizes == {0, 128, 976, 992, 2000, 2016}
Texts == {Pattern(n, 11) : n \in Sizes}
Numbers == {1, 16909060}

Entry(n) == [id |-> Pattern(16, n), userName |-> [i \in 1 .. 60 * n |-> 1 + ((i + n) % 127)]]
Clients == {[i \in 1 .. n |-> Entry(i)] : n \in {0, 1, 3, 4}}

Mail(id, n) ==
  [id |-> id, fromClient |-> Pattern(16, id % 256), type |-> id % 4, content |-> Pattern(n, id % 256)]
Lots ==
  {<<>>, <<Mail(1, 0)>>, <<Mail(1, 992)>>, <<Mail(2, 1008)>>, <<Mail(2, 2016)>>,
   <<Mail(3, 128), Mail(16909060, 848)>>, <<Mail(1, 960), Mail(2, 16), Mail(3, 2000)>>}
=============================================================================
