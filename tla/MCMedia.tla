------------------------------ MODULE MCMedia ------------------------------
(***************************************************************************)
(* The two halves of sending media, RtpSender and Twcc, for TLC.  A        *)
(* behaviour is one of the first or one of the second; the other half      *)
(* stays in an initial state.                                              *)
(***************************************************************************)
EXTENDS RtpSender, Twcc

Budget(p, t, f) == [packets |-> p, ticks |-> t, faults |-> f]

\* Three packets that overtake each other; a packet that cannot be sent, arrives twice or is
\* sent again next to another one; and time enough to leave the rolling window.
MCBudgets == {Budget(3, 1, 0), Budget(2, 1, 1), Budget(2, 2, 0), Budget(1, 2, 1)}
MCLongBudgets == {Budget(3, 2, 0)}

VARIABLE half

mediaVars == <<half, vars, twccVars>>

MediaInit ==
  /\ half \in {"path", "twcc"} /\ Init /\ TwccInit
  /\ half = "path" => /\ budget = CHOOSE b \in Budgets : TRUE
                      /\ callbacks = CHOOSE c \in Callbacks : TRUE
                      /\ numbered.next = Min(FirstNumbers)
  /\ half = "twcc" => /\ mode = CHOOSE m \in Modes : TRUE
                      /\ targetBitrateBps = Min(Rates) /\ maxQueueTimeKvs = Min(QueueTimes)
                      /\ lastIndex = 0

MediaNext ==
  \/ half = "path" /\ Next /\ UNCHANGED <<half, twccVars>>
  \/ half = "twcc" /\ TwccNext /\ UNCHANGED <<half, vars>>

FairMedia == MediaInit /\ [][MediaNext]_mediaVars /\ (half = "path" => Fairness)
=============================================================================
