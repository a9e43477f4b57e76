---------------------------- MODULE MCHNZWindow ----------------------------
(* HNZWindow for TLC: small settings; the numbers start just before they    *)
(* wrap around.                                                             *)
EXTENDS HNZWindow

Setting(ratio, repeat_max) == [ratio |-> ratio, repeat_max |-> repeat_max]

\* one frame at a time, no repetition, and both anticipation and repetition
AllSettings == {Setting(1, 1), Setting(2, 0), Setting(2, 1)}
\* bound: one frame at a time on the way from the RTU, with both of them or once
\* the third message is there; two are explored before and under the other
\* settings.  It cuts steps of the RTU and of those who send, which no fairness
\* asks for, and none of CheckTimer, ReceiveNothing and ApplyTransition: what is
\* left is the specification of a slower RTU, whose liveness is checked.
OneAnswerAtATime == conf = Setting(2, 1) \/ next_id > 3 => Len(from_rtu) <= 1
=============================================================================
