-------------------------- MODULE MCDeliveryStream --------------------------
(***************************************************************************)
(* Instances of DeliveryStream for TLC.  A tick is a tenth of a second.    *)
(***************************************************************************)
EXTENDS DeliveryStream, TLC

NoPace == [kind |-> "none"]
NoLimit == [kind |-> "none"]
Bytes(n) == [kind |-> "bytes", n |-> n]
Time(n) == [kind |-> "time", n |-> n]

Paces ==
  {NoPace, [kind |-> "chunk", size |-> 0, interval |-> 1],
   [kind |-> "chunk", size |-> 2, interval |-> 3],
   [kind |-> "speed", bps |-> 0], [kind |-> "speed", bps |-> 20],
   [kind |-> "duration", time |-> 9]}

MCShaped ==
  [len : {0, 1, 5}, pace : Paces, first : {None, 2},
   drop : {NoLimit, Bytes(3), Time(2), Time(4)}, hang : {NoLimit, Bytes(3), Time(3)}]

\* Bodies long enough for pace: duration to make chunks of more than a byte,
\* and limits of no bytes.
MCDeliveries ==
  MCShaped
    \cup [len : {2, 10, 23}, pace : {[kind |-> "duration", time |-> t] : t \in {0, 7, 15}},
          first : {None, 0}, drop : {NoLimit}, hang : {NoLimit}]
    \cup [len : {1}, pace : {NoPace}, first : {None}, drop : {NoLimit, Bytes(0)},
          hang : {NoLimit, Bytes(0)}]

MCDocumented ==
  [len : {5}, pace : {NoPace, [kind |-> "chunk", size |-> 2, interval |-> 3]},
   first : {None, 3}, drop : {NoLimit, Bytes(2), Time(1)}, hang : {NoLimit, Bytes(1)}]
=============================================================================
