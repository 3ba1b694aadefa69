-------------------------- MODULE MCChannelIngest --------------------------
(* Instances of ChannelIngest for TLC: what each run exercises beside       *)
(* deliveries and cancellations.                                            *)
EXTENDS ChannelIngest, TLC

RaceOps == {"desk", "fail"}
SettleOps == {"fail"}
TwiceOps == {}

Symmetry == Permutations(Jobs) \cup Permutations(Cancellers)
=============================================================================
