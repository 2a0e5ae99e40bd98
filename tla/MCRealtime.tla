----------------------------- MODULE MCRealtime -----------------------------
(* Instances of Realtime for TLC. *)
EXTENDS RealtimeProps, TLC

CONSTANTS u1, u2    \* members

(* Hints of one effect to the order page of u1, of others through the hub *)
OrderOps == {<<"order", u1>>, <<"order", u2>>, <<"request", u1>>, <<"profile", u2>>}

(* Hints of different effects to a kraam page and to the shell of u1 *)
MixedOps == {"booking", "request", "profile"} \X {u1}

WithdrawOps == {<<"withdraw", u1>>}
=============================================================================
