------------------------------ MODULE AirParts ------------------------------
(***************************************************************************)
(* The parts of the system on the two sides of the air besides the two     *)
(* that have runs of their own (StubbornLink, RateSwitch): binding, the    *)
(* MSP uplink, the link quality windows, the hop sequence and AirPort's    *)
(* FIFO. They share no state, so that one of them is run at a time: what   *)
(* the others do cannot make a difference to it.                           *)
(***************************************************************************)
EXTENDS Binding, MspUplink, LqWindow, Fhss, AirportFifo

VARIABLE airPart   \* the part that runs

airVars == <<airPart, bindVars, mspVars, lqVars, fhssVars, vars>>

\* A part that does not run stays in one initial state.
AirInit ==
  /\ airPart \in {"binding", "msp", "lq", "hops", "fifo"}
  /\ BindInit /\ (airPart # "binding" => flash = NoUid)
  /\ MspInit /\ (airPart # "msp" => ~quiet)
  /\ LqInit /\ FhssInit
  /\ Init /\ (airPart # "fifo" => head = 0)

AirNext ==
  /\ UNCHANGED airPart
  /\ \/ airPart = "binding" /\ BindNext /\ UNCHANGED <<mspVars, lqVars, fhssVars, vars>>
     \/ airPart = "msp" /\ MspNext /\ UNCHANGED <<bindVars, lqVars, fhssVars, vars>>
     \/ airPart = "lq" /\ LqNext /\ UNCHANGED <<bindVars, mspVars, fhssVars, vars>>
     \/ airPart = "hops" /\ FhssNext /\ UNCHANGED <<bindVars, mspVars, lqVars, vars>>
     \/ airPart = "fifo" /\ Next /\ UNCHANGED <<bindVars, mspVars, lqVars, fhssVars>>

\* The fairness of the parts.
AirFairness ==
  /\ WF_bindVars(airPart = "binding" /\ TxStep)
  /\ WF_mspVars(airPart = "msp" /\ UnlockMspMessage)
  /\ WF_mspVars(airPart = "msp" /\ StartTransfer)
  /\ WF_mspVars(airPart = "msp" /\ QueueUplink)
  /\ WF_mspVars(airPart = "msp" /\ RecoverPending)
  /\ WF_mspVars(airPart = "msp" /\ MspReceiveComplete)
  /\ WF_mspVars(airPart = "msp" /\ MspSlot)
  /\ WF_vars(airPart = "fifo" /\ Main)

AirSpec == AirInit /\ [][AirNext]_airVars /\ AirFairness

\* Type correctness of every part.
AirTypeOK == BindTypeOK /\ MspTypeOK /\ LqTypeOK /\ FhssTypeOK /\ TypeOK

\* The two tables over the slots of the link say what they should: the window what
\* was received, the hop sequence every channel as often.
SlotTablesRight == LqCountsWindow /\ HopsRight
=============================================================================
