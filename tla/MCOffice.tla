------------------------------ MODULE MCOffice ------------------------------
(***************************************************************************)
(* A batch of sends, and the test of an operator.  They share no state, so *)
(* a behaviour is of one of them, part, and leaves the other as it starts. *)
(* A batch is one that is created and drained, with everything that Around *)
(* names, or one that is tried again, whose workers keep their leases and  *)
(* whose sends do not throw late.  The two apart are what TLC can do.      *)
(* What becomes of a payment of the batch afterwards is left to MCDesk.    *)
(***************************************************************************)
EXTENDS BulkSend, OperatorProbe

VARIABLE part

officeVars == <<part, batchVars, probeVars>>

BatchParts == {"drained", "triedAgain"}

InBatch(A) == part \in BatchParts /\ A /\ UNCHANGED <<part, probeVars>>
Drained(A) == part = "drained" /\ InBatch(A)
TriedAgain(A) == part = "triedAgain" /\ InBatch(A)
InProbe(A) == part = "probe" /\ A /\ UNCHANGED <<part, batchVars>>

(* Time passes; of a batch that is tried again only while no worker is at  *)
(* the end of its lease.                                                   *)
BatchMinute ==
  \/ Drained(Minute)
  \/ TriedAgain(/\ \A w \in Workers : Busy(w) => minute < jobs[workers[w].job].lockedAt + Lease
                /\ Minute)

OfficeInit == part \in BatchParts \cup {"probe"} /\ BatchInit /\ ProbeInit

OfficeNext ==
  \/ \E p \in Presses :
       \/ InBatch(Create(p)) \/ TriedAgain(ReadAgain(p)) \/ InBatch(WriteAgain(p))
       \/ InBatch(Enqueue(p)) \/ InBatch(PressStops(p))
  \/ \E w \in Workers :
       \/ \E j \in 1..Len(jobs) : InBatch(Claim(w, j))
       \/ InBatch(NothingToDo(w)) \/ InBatch(Load(w)) \/ InBatch(SendAnswered(w))
       \/ InBatch(SendRefused(w)) \/ Drained(SendThrewLate(w))
       \/ InBatch(Note(w)) \/ InBatch(End(w))
       \/ InBatch(Complete(w)) \/ InBatch(Throw(w)) \/ InBatch(Crash(w))
  \/ Drained(CloseOrg) \/ BatchMinute
  \/ \E t \in Tests :
       \/ InProbe(Add(t)) \/ InProbe(Rotate(t)) \/ InProbe(TestAgain(t))
       \/ InProbe(ReadOperator(t)) \/ InProbe(Supersede(t)) \/ InProbe(AskSafaricom(t))
       \/ InProbe(GiveUpAsking(t)) \/ InProbe(MarkFailed(t)) \/ InProbe(DropOperator(t))
       \/ InProbe(WriteProbe(t))
  \/ InProbe(Disable) \/ InProbe(DisableJobs) \/ InProbe(DisableProbes) \/ InProbe(StopServer)
  \/ \E p \in ProbeIds :
       InProbe(Answer(p)) \/ InProbe(ClaimTimeout(p)) \/ InProbe(TimeOut(p))

\* BatchFairness and ProbeFairness, each in the behaviours that are its own.
OfficeFairness ==
  /\ \A p \in Presses : WF_officeVars(InBatch(PressStep(p)))
  /\ WF_officeVars(BatchMinute)
  /\ \A w \in Workers : WF_officeVars(InBatch(WorkerStep(w)))
  /\ WF_officeVars(InProbe(DisableJobs)) /\ WF_officeVars(InProbe(DisableProbes))
  /\ \A t \in Tests : WF_officeVars(InProbe(TestStep(t)))
  /\ \A p \in ProbeIds :
       WF_officeVars(InProbe(ClaimTimeout(p))) /\ WF_officeVars(InProbe(TimeOut(p)))

OfficeSpec == OfficeInit /\ [][OfficeNext]_officeVars /\ OfficeFairness
=============================================================================
