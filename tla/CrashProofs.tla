---------------------------- MODULE CrashProofs -----------------------------
(***************************************************************************)
(* For any number of threads and signals: at most one thread at a time     *)
(* makes a report, and handling_event says whether one does.  With the     *)
(* places a thread may be in, OneReporter is inductive: the flag is tested *)
(* and set in one step, and cleared on each way out of the report.         *)
(***************************************************************************)
EXTENDS CrashReporter, FiniteSetTheorems, TLAPS

Inside == {"note", "write", "ask", "closing", "clear"}
Outside == {"run", "log", "ending", "exit", "ended", "entry", "reset", "raise"}
Reporters == {t \in CrashThread : at[t] \in Inside}

CrashInv ==
  /\ at \in [CrashThread -> Inside \cup Outside]
  /\ handling \in BOOLEAN
  /\ OneReporter

(* Finitely many threads make a report, so that they can be counted. *)
LEMMA ReportersFinite == IsFiniteSet(Reporters) /\ Cardinality(Reporters) \in Nat
<1>1. IsFiniteSet(CrashThread)
  BY CrashAssumption, FS_AddElement DEF CrashThread
<1>2. Reporters \in SUBSET CrashThread
  BY DEF Reporters
<1> QED
  BY <1>1, <1>2, FS_Subset, FS_CardinalityType

(* OneReporter counts the reporters. *)
LEMMA Counted == OneReporter <=> Cardinality(Reporters) = IF handling THEN 1 ELSE 0
<1>1. Reporters = {t \in CrashThread : Reporting(t)}
  BY DEF Reporters, Reporting, Inside
<1> QED
  BY <1>1 DEF OneReporter

(* A thread that neither begins nor ends a report leaves the reporters alone. *)
LEMMA ReportersKept ==
  ASSUME NEW t \in CrashThread, NEW from, NEW to \in Inside \cup Outside,
         at \in [CrashThread -> Inside \cup Outside],
         from \in Inside <=> to \in Inside, Move(t, from, to)
  PROVE  Reporters' = Reporters /\ at' \in [CrashThread -> Inside \cup Outside]
<1>1. at' \in [CrashThread -> Inside \cup Outside]
  BY DEF Move
<1>2. Reporters' = Reporters
  BY DEF Move, Reporters
<1> QED
  BY <1>1, <1>2

(* One that begins a report is one more. *)
LEMMA ReporterGained ==
  ASSUME NEW t \in CrashThread, NEW from \in Outside, NEW to \in Inside,
         at \in [CrashThread -> Inside \cup Outside], Move(t, from, to)
  PROVE  /\ Cardinality(Reporters') = Cardinality(Reporters) + 1
         /\ at' \in [CrashThread -> Inside \cup Outside]
<1>1. at' \in [CrashThread -> Inside \cup Outside]
  BY DEF Move
<1>2. Reporters' = Reporters \cup {t} /\ t \notin Reporters
  BY DEF Move, Reporters, Inside, Outside
<1> QED
  BY <1>1, <1>2, ReportersFinite, FS_AddElement, Zenon

(* One that ends its report is one less. *)
LEMMA ReporterLost ==
  ASSUME NEW t \in CrashThread, NEW from \in Inside, NEW to \in Outside,
         at \in [CrashThread -> Inside \cup Outside], Move(t, from, to)
  PROVE  /\ Cardinality(Reporters') = Cardinality(Reporters) - 1
         /\ Cardinality(Reporters) # 0
         /\ at' \in [CrashThread -> Inside \cup Outside]
<1>1. at' \in [CrashThread -> Inside \cup Outside]
  BY DEF Move
<1>2. Reporters' = Reporters \ {t} /\ t \in Reporters
  BY DEF Move, Reporters, Inside, Outside
<1> QED
  BY <1>1, <1>2, ReportersFinite, FS_RemoveElement, FS_EmptySet

(* No thread reports at the start. *)
LEMMA CrashInvInit == CrashInit => CrashInv
<1> SUFFICES ASSUME CrashInit PROVE CrashInv
  OBVIOUS
<1>1. Reporters = {} /\ at \in [CrashThread -> Inside \cup Outside]
  BY DEF CrashInit, Reporters, Inside, Outside
<1> QED
  BY <1>1, Counted, FS_EmptySet, Zenon DEF CrashInit, CrashInv

(* Every step keeps the flag and the number of reporters together. *)
LEMMA CrashInvStep == CrashInv /\ [CrashNext]_crashVars => CrashInv'
<1> SUFFICES ASSUME CrashInv, [CrashNext]_crashVars PROVE CrashInv'
  OBVIOUS
<1> DEFINE Typed == at \in [CrashThread -> Inside \cup Outside]
<1> DEFINE Count == Cardinality(Reporters) = IF handling THEN 1 ELSE 0
<1> DEFINE Kept == Reporters' = Reporters /\ Typed' /\ handling' = handling
<1>0. Typed /\ Count /\ handling \in BOOLEAN /\ Cardinality(Reporters) \in Nat
  BY Counted, ReportersFinite DEF CrashInv
<1>c. OneReporter' <=> Count'
  BY Counted, PTL
<1>k. ASSUME Kept PROVE CrashInv'
  BY <1>0, <1>k, <1>c DEF CrashInv
<1>m. Main \in CrashThread
  BY DEF CrashThread
<1> HIDE DEF Typed
<1>1. CASE UNCHANGED crashVars
  BY <1>0, <1>1, <1>k DEF crashVars, Reporters, Typed
<1>2. CASE error_reporter_install
  BY <1>0, <1>2, <1>k DEF error_reporter_install, Reporters, Typed
<1>3. ASSUME NEW t \in CrashThread, NEW from, NEW closing \in Inside \cup Outside,
             NEW next \in Inside \cup Outside,
             from \in Inside <=> closing \in Inside, from \in Inside <=> next \in Inside,
             Close(t, from, closing, next) \/ (from = closing /\ SetNull(t, closing, next))
      PROVE  CrashInv'
  <2>1. handling' = handling /\ (Move(t, from, next) \/ Move(t, from, closing))
    BY <1>3 DEF Close, SetNull
  <2> QED
    BY <1>0, <1>3, <1>k, <2>1, ReportersKept DEF Typed
<1>4. CASE MainEnds
  <2>1. CASE Close(Main, "run", "ending", "exit")
    BY <1>3, <1>m, <2>1 DEF Inside, Outside
  <2>2. CASE SetNull(Main, "ending", "exit")
    BY <1>3, <1>m, <2>2 DEF Inside, Outside
  <2>3. CASE Move(Main, "exit", "ended") /\ UNCHANGED handling
    BY <1>0, <1>k, <1>m, <2>3, ReportersKept DEF Typed, Inside, Outside
  <2> QED
    BY <1>4, <2>1, <2>2, <2>3 DEF MainEnds
<1>5. ASSUME NEW t \in CrashThread, Fault(t) PROVE CrashInv'
  <2>1. /\ handling' = handling /\ at[t] \in {"run", "log", "ending", "exit"}
        /\ at' = at \/ at' = [at EXCEPT ![t] = "entry"]
    BY <1>5, Zenon DEF Fault
  <2>2. Typed'
    BY <1>0, <2>1 DEF Typed, Outside
  <2>3. Reporters' = Reporters
    BY <1>0, <2>1 DEF Typed, Reporters, Inside, Outside
  <2> QED
    BY <1>k, <2>1, <2>2, <2>3
<1>6. ASSUME NEW t \in CrashThread, FaultAgain(t) PROVE CrashInv'
  BY <1>0, <1>6, <1>k DEF FaultAgain, Reporters, Typed
<1>7. ASSUME NEW t \in CrashThread, log_write(t) PROVE CrashInv'
  <2>1. handling' = handling /\ (Move(t, "run", "log") \/ Move(t, "log", "run"))
    BY <1>7 DEF log_write
  <2> QED
    BY <1>0, <1>k, <1>7, <2>1, ReportersKept DEF Typed, Inside, Outside
<1>8. ASSUME NEW t \in CrashThread, Finish(t) PROVE CrashInv'
  <2>1. handling' = handling /\ Move(t, "run", "ended")
    BY <1>8 DEF Finish
  <2> QED
    BY <1>0, <1>k, <1>8, <2>1, ReportersKept DEF Typed, Inside, Outside
<1>9. ASSUME NEW t \in CrashThread, Enter(t) PROVE CrashInv'
  <2>1. CASE handling /\ Move(t, "entry", "reset") /\ UNCHANGED handling
    BY <1>0, <1>k, <1>9, <2>1, ReportersKept DEF Typed, Inside, Outside
  <2>2. CASE ~handling /\ Move(t, "entry", "note") /\ handling' = TRUE
    <3>1. Cardinality(Reporters') = Cardinality(Reporters) + 1 /\ Typed'
      BY <1>0, <1>9, <2>2, ReporterGained DEF Typed, Inside, Outside
    <3>2. Cardinality(Reporters') = 1
      BY <1>0, <2>2, <3>1
    <3> QED
      BY <1>c, <2>2, <3>1, <3>2 DEF CrashInv, Typed
  <2> QED
    BY <1>9, <2>1, <2>2, Zenon DEF Enter
<1>10. ASSUME NEW t \in CrashThread, CreateFails(t) \/ ClearFlag(t) PROVE CrashInv'
  <2>1. handling' = FALSE /\ (Move(t, "note", "reset") \/ Move(t, "clear", "reset"))
    BY <1>10 DEF CreateFails, ClearFlag
  <2>2. /\ Cardinality(Reporters') = Cardinality(Reporters) - 1
        /\ Cardinality(Reporters) # 0 /\ Typed'
    BY <1>0, <1>10, <2>1, ReporterLost DEF Typed, Inside, Outside
  <2>3. Cardinality(Reporters') = 0
    BY <1>0, <2>2
  <2> QED
    BY <1>c, <2>1, <2>2, <2>3, Zenon DEF CrashInv, Typed
<1>11. ASSUME NEW t \in CrashThread, Create(t) \/ Write(t) \/ Reset(t) \/ Raise(t)
       PROVE  CrashInv'
  <2>1. /\ handling' = handling
        /\ \/ Move(t, "note", "write") \/ Move(t, "write", "ask")
           \/ Move(t, "reset", "raise")
           \/ \E to \in {"entry", "raise"} : Move(t, "raise", to)
    BY <1>11 DEF Create, Write, Reset, Raise
  <2> QED
    BY <1>0, <1>k, <1>11, <2>1, ReportersKept DEF Typed, Inside, Outside
<1>12. ASSUME NEW t \in CrashThread, Shutdown(t) PROVE CrashInv'
  <2>1. CASE Close(t, "ask", "closing", "clear")
    BY <1>3, <1>12, <2>1 DEF Inside, Outside
  <2>2. CASE SetNull(t, "closing", "clear")
    BY <1>3, <1>12, <2>2 DEF Inside, Outside
  <2> QED
    BY <1>12, <2>1, <2>2 DEF Shutdown
<1> QED
  BY <1>1, <1>2, <1>4, <1>5, <1>6, <1>7, <1>8, <1>9, <1>10, <1>11, <1>12
     DEF CrashNext, Handler

(* Never do two threads make a report, and handling_event is set exactly
   while one does, in every behaviour (handle_crash_event). *)
THEOREM OneReporterHolds == CrashSpec => []OneReporter
<1>1. CrashInv => OneReporter
  BY DEF CrashInv
<1> QED
  BY <1>1, CrashInvInit, CrashInvStep, PTL DEF CrashSpec
=============================================================================
