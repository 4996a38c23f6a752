---------------------------- MODULE Updater_proofs ----------------------------
(***************************************************************************)
(* Proofs about the self-update, for any clients and releases and whatever  *)
(* number of retries.                                                       *)
(***************************************************************************)
EXTENDS Updater, TLAPS

USE FirstAssumption, MarkAssumption, RetryAssumption

(* The steps of one client, of its worker and of its stage 2.               *)
MainStep(c) ==
    \/ Open(c) \/ CleanupPreviousUpdate(c)
    \/ \E v \in Versions : PresentUpdate(c, v)
    \/ Update(c) \/ Retry(c) \/ Consent(c) \/ Cancel(c)
    \/ PumpStage2(c) \/ Quit(c) \/ Exit(c) \/ Die(c)

WorkerStep(c) == Fetched(c) \/ BeginVerify(c) \/ Compared(c) \/ HandOff(c)

Stage2Step(c) ==
    \/ RemoveLeftovers(c) \/ Extract(c) \/ Park(c) \/ Place(c)
    \/ Relaunch(c) \/ Crash(c)

LEMMA StepKinds ==
    ASSUME Next
    PROVE  \E c \in Clients : MainStep(c) \/ WorkerStep(c) \/ Stage2Step(c)
  BY DEF Next, MainStep, WorkerStep, Stage2Step

-----------------------------------------------------------------------------
(* Types *)

LEMMA NewRecords ==
    /\ \A v \in Versions \cup {None} :
           Process("none", v) \in Processes /\ Process("starting", v) \in Processes
    /\ Ended \in Stages
  BY DEF Process, Processes, States, Ended, Stages

LEMMA TypeStep ==
    ASSUME TypeOK, [Next]_vars
    PROVE  TypeOK'
  <1>0. CASE UNCHANGED vars
    BY <1>0 DEF vars, diskVars, TypeOK
  <1> SUFFICES ASSUME NEW c \in Clients, MainStep(c) \/ WorkerStep(c) \/ Stage2Step(c)
               PROVE  TypeOK'
    BY <1>0, StepKinds
  <1>a. /\ \A v \in Versions \cup {None} :
               Process("none", v) \in Processes /\ Process("starting", v) \in Processes
        /\ Ended \in Stages
    BY NewRecords
  <1>b. client[c] \in Processes /\ stage2[c] \in Stages
    BY DEF TypeOK
  <1>1. CASE Open(c)
    BY <1>1, <1>a DEF Open, TypeOK, diskVars
  <1>2. CASE CleanupPreviousUpdate(c)
    BY <1>2, <1>b DEF CleanupPreviousUpdate, TypeOK, Processes, Contents
  <1>3. ASSUME NEW v \in Versions, PresentUpdate(c, v) PROVE TypeOK'
    BY <1>3, <1>b DEF PresentUpdate, Refused, TypeOK, Processes, diskVars, States
  <1>4. CASE Update(c)
    BY <1>4, <1>b DEF Update, Shows, TypeOK, Processes, diskVars
  <1>5. CASE Retry(c)
    BY <1>5, <1>b DEF Retry, Shows, TypeOK, Processes, diskVars
  <1>6. CASE Consent(c)
    BY <1>6, <1>b DEF Consent, TypeOK, Processes, diskVars, States
  <1>7. CASE Cancel(c)
    BY <1>7, <1>b DEF Cancel, Shows, TypeOK, Processes, diskVars
  <1>8. CASE PumpStage2(c)
    <2>1. client' \in [Clients -> Processes]
      BY <1>8, <1>b DEF PumpStage2, CanLaunch, TypeOK, Processes, States
    <2>2. client[c].verified \in Versions \cup {None}
      BY <1>b DEF Processes
    <2>3. [at |-> "waiting", release |-> client[c].verified] \in Stages
      BY <2>2 DEF Stages
    <2>4. stage2' \in [Clients -> Stages]
      BY <1>8, <2>3 DEF PumpStage2, CanLaunch, TypeOK
    <2> QED BY <1>8, <2>1, <2>4 DEF PumpStage2, CanLaunch, TypeOK, diskVars
  <1>9. CASE Quit(c)
    BY <1>9, <1>b DEF Quit, TypeOK, Processes, diskVars
  <1>10. CASE Exit(c)
    BY <1>10, <1>a DEF Exit, TypeOK, diskVars
  <1>11. CASE Die(c)
    BY <1>11, <1>a DEF Die, TypeOK, Contents
  <1>12. CASE Fetched(c)
    BY <1>12, <1>b DEF Fetched, Fetch, TypeOK, Processes, Contents, States
  <1>13. CASE BeginVerify(c)
    BY <1>13, <1>b DEF BeginVerify, TypeOK, Processes, diskVars, States
  <1>14. CASE Compared(c)
    BY <1>14, <1>b DEF Compared, VerifyFile, TypeOK, Processes, diskVars, States
  <1>21. CASE HandOff(c)
    BY <1>21, <1>b DEF HandOff, TypeOK, Processes, diskVars, States
  <1>15. CASE RemoveLeftovers(c)
    BY <1>15, <1>b DEF RemoveLeftovers, TypeOK, Stages, Contents
  <1>16. CASE Extract(c)
    BY <1>16, <1>b DEF Extract, Unpacked, TypeOK, Stages, Contents
  <1>17. CASE Park(c)
    BY <1>17, <1>a, <1>b DEF Park, TypeOK, Stages, Contents
  <1>18. CASE Place(c)
    BY <1>18, <1>a, <1>b DEF Place, RollBack, TypeOK, Stages, Contents
  <1>19. CASE Relaunch(c)
    BY <1>19, <1>a DEF Relaunch, TypeOK, diskVars
  <1>20. CASE Crash(c)
    BY <1>20, <1>a DEF Crash, TypeOK, Contents
  <1> QED
    BY <1>1, <1>2, <1>3, <1>4, <1>5, <1>6, <1>7, <1>8, <1>9, <1>10, <1>11, <1>12, <1>13,
       <1>14, <1>15, <1>16, <1>17, <1>18, <1>19, <1>20, <1>21
       DEF MainStep, WorkerStep, Stage2Step

-----------------------------------------------------------------------------
(* One client: a worker belongs to a running download, a cancel that came   *)
(* in time keeps its flag up, and stage 2 has no client beside it but an    *)
(* ending one.                                                              *)
Orderly(c) ==
    /\ client[c].run \in {"none", "starting"} =>
           /\ client[c].state = "IDLE" /\ client[c].worker = "none"
           /\ ~client[c].stopped
    /\ client[c].state # "IDLE" => client[c].sha \in Versions
    /\ client[c].worker # "none" =>
           client[c].state \in {"PROMPTING", "DOWNLOADING", "VERIFYING"}
    /\ client[c].stopped =>
           /\ client[c].cancel
           /\ client[c].worker \in {"none", "fetching"}
           /\ client[c].state # "STAGING"
    /\ stage2[c].at # "none" =>
           /\ client[c].run \in {"none", "exiting"}
           /\ client[c].worker = "none"

OrderlyAll == \A c \in Clients : Orderly(c)

LEMMA OrderlyStep ==
    ASSUME TypeOK, OrderlyAll, [Next]_vars
    PROVE  OrderlyAll'
  <1>0. CASE UNCHANGED vars
    BY <1>0 DEF vars, OrderlyAll, Orderly
  <1> SUFFICES ASSUME NEW c \in Clients, MainStep(c) \/ WorkerStep(c) \/ Stage2Step(c),
                      NEW d \in Clients
               PROVE  Orderly(d)'
    BY <1>0, StepKinds DEF OrderlyAll
  <1>a. client \in [Clients -> Processes] /\ stage2 \in [Clients -> Stages]
    BY DEF TypeOK
  <1>b. client[c] \in Processes /\ stage2[c] \in Stages
    BY <1>a
  <1>c. Orderly(c) /\ Orderly(d)
    BY DEF OrderlyAll
  <1> USE DEF Orderly
  <1>1. CASE Open(c)
    BY <1>1, <1>a, <1>c DEF Open, Free, Process
  <1>2. CASE CleanupPreviousUpdate(c)
    BY <1>2, <1>a, <1>b, <1>c DEF CleanupPreviousUpdate, Processes
  <1>3. ASSUME NEW v \in Versions, PresentUpdate(c, v) PROVE Orderly(d)'
    BY <1>3, <1>a, <1>b, <1>c DEF PresentUpdate, Refused, Processes
  <1>4. CASE Update(c)
    BY <1>4, <1>a, <1>b, <1>c DEF Update, Shows, Processes
  <1>5. CASE Retry(c)
    BY <1>5, <1>a, <1>b, <1>c DEF Retry, Shows, Processes
  <1>6. CASE Consent(c)
    BY <1>6, <1>a, <1>b, <1>c DEF Consent, Processes
  <1>7. CASE Cancel(c)
    BY <1>7, <1>a, <1>b, <1>c DEF Cancel, Shows, Processes
  <1>8. CASE PumpStage2(c)
    BY <1>8, <1>a, <1>b, <1>c DEF PumpStage2, CanLaunch, Processes, Stages
  <1>9. CASE Quit(c)
    BY <1>9, <1>a, <1>b, <1>c DEF Quit, Processes
  <1>10. CASE Exit(c)
    BY <1>10, <1>a, <1>c DEF Exit, Process
  <1>11. CASE Die(c)
    BY <1>11, <1>a, <1>c DEF Die, Process
  <1>12. CASE Fetched(c)
    BY <1>12, <1>a, <1>b, <1>c DEF Fetched, Fetch, Processes
  <1>13. CASE BeginVerify(c)
    BY <1>13, <1>a, <1>b, <1>c DEF BeginVerify, Processes
  <1>14. CASE Compared(c)
    BY <1>14, <1>a, <1>b, <1>c DEF Compared, VerifyFile, Processes
  <1>21. CASE HandOff(c)
    BY <1>21, <1>a, <1>b, <1>c DEF HandOff, Processes
  <1>15. CASE RemoveLeftovers(c)
    BY <1>15, <1>a, <1>b, <1>c DEF RemoveLeftovers, Stages
  <1>16. CASE Extract(c)
    BY <1>16, <1>a, <1>b, <1>c DEF Extract, Unpacked, Stages
  <1>17. CASE Park(c)
    BY <1>17, <1>a, <1>b, <1>c DEF Park, Stages, Ended
  <1>18. CASE Place(c)
    BY <1>18, <1>a, <1>b, <1>c DEF Place, Stages, Ended
  <1>19. CASE Relaunch(c)
    BY <1>19, <1>a, <1>c DEF Relaunch, Process, Ended
  <1>20. CASE Crash(c)
    BY <1>20, <1>a, <1>c DEF Crash, Ended
  <1> QED
    BY <1>1, <1>2, <1>3, <1>4, <1>5, <1>6, <1>7, <1>8, <1>9, <1>10, <1>11, <1>12, <1>13,
       <1>14, <1>15, <1>16, <1>17, <1>18, <1>19, <1>20, <1>21
       DEF MainStep, WorkerStep, Stage2Step

-----------------------------------------------------------------------------
(* One at a time: as long as the player has not opened a second client, one *)
(* client at most is running, downloading or has a stage 2.                 *)
Active(c) ==
    \/ client[c].run \in {"starting", "up", "joining"}
    \/ client[c].worker # "none"
    \/ stage2[c].at # "none"

OneActive == ~second => \A c, d \in Clients : Active(c) /\ Active(d) => c = d

(* A step of a client leaves no other active one, as long as that holds;    *)
(* Relaunch passes on to the client it starts.                              *)
LEMMA OneActiveStep ==
    ASSUME TypeOK, OrderlyAll, OneActive, [Next]_vars
    PROVE  OneActive'
  <1>0. CASE UNCHANGED vars
    BY <1>0 DEF vars, OneActive, Active
  <1> SUFFICES ASSUME NEW c \in Clients, MainStep(c) \/ WorkerStep(c) \/ Stage2Step(c)
               PROVE  OneActive'
    BY <1>0, StepKinds
  <1>a. client \in [Clients -> Processes] /\ stage2 \in [Clients -> Stages]
    BY DEF TypeOK
  <1>b. client[c] \in Processes /\ stage2[c] \in Stages
    BY <1>a
  <1>c. \A d \in Clients : Orderly(d)
    BY DEF OrderlyAll
  <1>1. CASE Open(c)
    <2> SUFFICES ASSUME ~second', NEW d \in Clients, Active(d)' PROVE d = c
      BY DEF OneActive
    <2>1. Free(d)
      BY <1>1 DEF Open
    <2>2. client[d].worker = "none"
      BY <2>1, <1>c DEF Orderly, Free
    <2>3. ~Active(d)
      BY <2>1, <2>2 DEF Active, Free
    <2> QED BY <1>1, <1>a, <2>3 DEF Open, Active
  <1>2. CASE Relaunch(c)
    <2> SUFFICES ASSUME ~second PROVE \A d, e \in Clients : Active(d)' /\ Active(e)' => d = e
      BY <1>2 DEF OneActive, Relaunch
    <2>1. Active(c) /\ \A d \in Clients : Active(d) => d = c
      BY <1>2 DEF OneActive, Active, Relaunch
    <2>2. stage2' = [stage2 EXCEPT ![c] = Ended]
      BY <1>2 DEF Relaunch
    <2>3. CASE client' = client
      BY <1>a, <2>1, <2>2, <2>3 DEF Active
    <2>4. ASSUME NEW d \in Clients, client' = [client EXCEPT ![d] = Process("starting", install)]
          PROVE  \A e \in Clients : Active(e)' => e = d
      <3> SUFFICES ASSUME NEW e \in Clients, e # d PROVE ~Active(e)'
        OBVIOUS
      <3>1. client'[e] = client[e]
        BY <1>a, <2>4
      <3>2. CASE e = c
        BY <1>a, <1>2, <1>c, <2>2, <3>1, <3>2 DEF Active, Orderly, Relaunch, Ended
      <3>3. CASE e # c
        BY <1>a, <2>1, <2>2, <3>1, <3>3 DEF Active
      <3> QED BY <3>2, <3>3
    <2> QED BY <1>2, <2>3, <2>4 DEF Relaunch
  <1>3. ASSUME ~Open(c), ~Relaunch(c)
        PROVE  /\ second' = second
               /\ \A d \in Clients : Active(d)' => Active(d)
    <2>1. second' = second
      BY <1>3 DEF MainStep, WorkerStep, Stage2Step, CleanupPreviousUpdate, PresentUpdate,
         Update, Retry, Consent, Cancel, PumpStage2, Quit, Exit, Die, Fetched, BeginVerify,
         Compared, HandOff, RemoveLeftovers, Extract, Park, Place, Crash
    <2> SUFFICES ASSUME NEW d \in Clients, Active(d)' PROVE Active(d)
      BY <2>1
    <2>2. CASE CleanupPreviousUpdate(c)
      BY <2>2, <1>a, <1>b DEF CleanupPreviousUpdate, Active, Processes
    <2>3. ASSUME NEW v \in Versions, PresentUpdate(c, v) PROVE Active(d)
      BY <2>3, <1>a, <1>b DEF PresentUpdate, Refused, Active, Processes
    <2>4. CASE Update(c)
      BY <2>4, <1>a, <1>b DEF Update, Shows, Active, Processes
    <2>5. CASE Retry(c)
      BY <2>5, <1>a, <1>b DEF Retry, Shows, Active, Processes
    <2>6. CASE Consent(c)
      BY <2>6, <1>a, <1>b DEF Consent, Active, Processes
    <2>7. CASE Cancel(c)
      BY <2>7, <1>a, <1>b DEF Cancel, Shows, Active, Processes
    <2>8. CASE PumpStage2(c)
      BY <2>8, <1>a, <1>b DEF PumpStage2, CanLaunch, Active, Processes
    <2>9. CASE Quit(c)
      BY <2>9, <1>a, <1>b DEF Quit, Active, Processes
    <2>10. CASE Exit(c)
      BY <2>10, <1>a DEF Exit, Active, Process
    <2>11. CASE Die(c)
      BY <2>11, <1>a DEF Die, Active, Process
    <2>12. CASE Fetched(c)
      BY <2>12, <1>a, <1>b DEF Fetched, Fetch, Active, Processes
    <2>13. CASE BeginVerify(c)
      BY <2>13, <1>a, <1>b DEF BeginVerify, Active, Processes
    <2>14. CASE Compared(c)
      BY <2>14, <1>a, <1>b DEF Compared, VerifyFile, Active, Processes
    <2>20. CASE HandOff(c)
      BY <2>20, <1>a, <1>b DEF HandOff, Active, Processes
    <2>15. CASE RemoveLeftovers(c)
      BY <2>15, <1>a DEF RemoveLeftovers, Active
    <2>16. CASE Extract(c)
      BY <2>16, <1>a DEF Extract, Unpacked, Active
    <2>17. CASE Park(c)
      BY <2>17, <1>a DEF Park, Active, Ended
    <2>18. CASE Place(c)
      BY <2>18, <1>a DEF Place, Active, Ended
    <2>19. CASE Crash(c)
      BY <2>19, <1>a DEF Crash, Active, Ended
    <2> QED
      BY <1>3, <2>2, <2>3, <2>4, <2>5, <2>6, <2>7, <2>8, <2>9, <2>10, <2>11, <2>12, <2>13,
         <2>14, <2>15, <2>16, <2>17, <2>18, <2>19, <2>20
         DEF MainStep, WorkerStep, Stage2Step
  <1> QED BY <1>1, <1>2, <1>3 DEF OneActive

-----------------------------------------------------------------------------
(* The disk, as the one client in charge of it needs it: a release is in    *)
(* place until stage 2 parks it, and then is in .old; the archive and what  *)
(* is unpacked from it are the release the client verified.                 *)
Held(c) ==
    /\ client[c].run \in {"starting", "up", "joining"} => install \in Versions
    /\ \/ client[c].worker = "handing"
       \/ client[c].run \in {"up", "joining"} /\ client[c].state = "STAGING"
       => zip = client[c].verified /\ zip \in Versions
    /\ stage2[c].at \in {"waiting", "extracting", "parking", "relaunching"} =>
           install \in Versions
    /\ stage2[c].at \in {"waiting", "extracting"} => zip = stage2[c].release
    /\ stage2[c].at = "extracting" => staged = None
    /\ stage2[c].at \in {"parking", "placing"} => staged = stage2[c].release
    /\ stage2[c].at \in {"waiting", "extracting", "parking", "placing"} =>
           stage2[c].release \in Versions
    /\ stage2[c].at = "placing" => install = None /\ old \in Versions

Whole ==
    /\ install \in Versions \cup {None}
    /\ install \in Versions \/ old \in Versions

DiskInv == ~second => Whole /\ \A c \in Clients : Held(c)

LEMMA DiskStep ==
    ASSUME TypeOK, OrderlyAll, OneActive, DiskInv, [Next]_vars
    PROVE  DiskInv'
  <1>0. CASE UNCHANGED vars
    BY <1>0 DEF vars, diskVars, DiskInv, Whole, Held
  <1> SUFFICES ASSUME NEW c \in Clients, MainStep(c) \/ WorkerStep(c) \/ Stage2Step(c),
                      ~second'
               PROVE  Whole' /\ \A d \in Clients : Held(d)'
    BY <1>0, StepKinds DEF DiskInv
  <1>a. client \in [Clients -> Processes] /\ stage2 \in [Clients -> Stages]
    BY DEF TypeOK
  <1>b. client[c] \in Processes /\ stage2[c] \in Stages
    BY <1>a
  <1>c. Orderly(c)
    BY DEF OrderlyAll
  <1>d. ~second
    BY DEF MainStep, WorkerStep, Stage2Step, Open, CleanupPreviousUpdate, PresentUpdate,
       Update, Retry, Consent, Cancel, PumpStage2, Quit, Exit, Die, Fetched, BeginVerify,
       Compared, HandOff, RemoveLeftovers, Extract, Park, Place, Relaunch, Crash
  <1>e. Whole /\ \A d \in Clients : Held(d)
    BY <1>d DEF DiskInv
  <1>f. Held(c)
    BY <1>e
  <1>g. ASSUME Active(c), NEW d \in Clients, d # c PROVE ~Active(d)
    BY <1>d, <1>g DEF OneActive
  (* Nothing is asked of the disk for a client that is not active.          *)
  <1>h. ASSUME NEW d \in Clients, ~Active(d), client'[d] = client[d], stage2'[d] = stage2[d]
        PROVE  Held(d)'
    BY <1>h DEF Active, Held
  (* What a step does to the disk matters to the client that takes it only. *)
  <1>i. ASSUME Active(c), Whole', Held(c)',
               \A d \in Clients : d # c => client'[d] = client[d] /\ stage2'[d] = stage2[d]
        PROVE  Whole' /\ \A d \in Clients : Held(d)'
    BY <1>g, <1>h, <1>i
  (* A step that leaves the disk alone can only disturb its own client.     *)
  <1>j. ASSUME UNCHANGED diskVars, Held(c)',
               \A d \in Clients : d # c => client'[d] = client[d] /\ stage2'[d] = stage2[d]
        PROVE  Whole' /\ \A d \in Clients : Held(d)'
    BY <1>e, <1>j DEF diskVars, Whole, Held
  <1>1. CASE Open(c)
    BY <1>1, <1>a, <1>b, <1>f, <1>j DEF Open, Free, Process, Held, diskVars
  <1>2. CASE CleanupPreviousUpdate(c)
    BY <1>2, <1>a, <1>b, <1>c, <1>f, <1>i
       DEF CleanupPreviousUpdate, Processes, Active, Orderly, Held, Whole
  <1>3. ASSUME NEW v \in Versions, PresentUpdate(c, v)
        PROVE  Whole' /\ \A d \in Clients : Held(d)'
    BY <1>3, <1>a, <1>b, <1>f, <1>j DEF PresentUpdate, Refused, Processes, Held, diskVars
  <1>4. CASE Update(c)
    BY <1>4, <1>a, <1>b, <1>f, <1>j DEF Update, Shows, Processes, Held, diskVars
  <1>5. CASE Retry(c)
    BY <1>5, <1>a, <1>b, <1>f, <1>j DEF Retry, Shows, Processes, Held, diskVars
  <1>6. CASE Consent(c)
    BY <1>6, <1>a, <1>b, <1>f, <1>j DEF Consent, Processes, Held, diskVars
  <1>7. CASE Cancel(c)
    BY <1>7, <1>a, <1>b, <1>f, <1>j DEF Cancel, Shows, Processes, Held, diskVars
  <1>8. CASE PumpStage2(c)
    <2>1. zip = client[c].verified /\ zip \in Versions /\ install \in Versions
      BY <1>8, <1>c, <1>f DEF PumpStage2, CanLaunch, Orderly, Held
    <2>2. stage2[c].at = "none"
      BY <1>8, <1>b, <1>c DEF PumpStage2, CanLaunch, Orderly, Stages
    <2> QED BY <1>8, <1>a, <1>b, <1>f, <1>j, <2>1, <2>2
               DEF PumpStage2, CanLaunch, Processes, Held, diskVars
  <1>9. CASE Quit(c)
    BY <1>9, <1>a, <1>b, <1>f, <1>j DEF Quit, Processes, Held, diskVars
  <1>10. CASE Exit(c)
    BY <1>10, <1>a, <1>f, <1>j DEF Exit, Process, Held, diskVars
  <1>11. CASE Die(c)
    <2>1. CASE Active(c)
      BY <1>11, <1>a, <1>b, <1>c, <1>e, <1>f, <1>i, <2>1
         DEF Die, Process, Processes, Orderly, Held, Whole
    <2>2. CASE ~Active(c)
      BY <1>11, <1>a, <1>f, <1>j, <2>2 DEF Die, Process, Active, Held, diskVars
    <2> QED BY <2>1, <2>2
  <1>12. CASE Fetched(c)
    BY <1>12, <1>a, <1>b, <1>c, <1>e, <1>f, <1>i
       DEF Fetched, Fetch, Processes, Active, Orderly, Held, Whole
  <1>13. CASE BeginVerify(c)
    BY <1>13, <1>a, <1>b, <1>f, <1>j DEF BeginVerify, Processes, Held, diskVars
  <1>14. CASE Compared(c)
    <2>1. client[c].sha \in Versions
      BY <1>14, <1>c DEF Compared, Orderly
    <2> QED BY <1>14, <1>a, <1>b, <1>f, <1>j, <2>1
               DEF Compared, VerifyFile, Processes, Held, diskVars
  <1>21. CASE HandOff(c)
    BY <1>21, <1>a, <1>b, <1>f, <1>j DEF HandOff, Processes, Held, diskVars
  <1>15. CASE RemoveLeftovers(c)
    BY <1>15, <1>a, <1>b, <1>c, <1>f, <1>i
       DEF RemoveLeftovers, Stages, Active, Orderly, Held, Whole
  <1>16. CASE Extract(c)
    BY <1>16, <1>a, <1>b, <1>c, <1>e, <1>f, <1>i
       DEF Extract, Unpacked, Stages, Active, Orderly, Held, Whole
  <1>17. CASE Park(c)
    BY <1>17, <1>a, <1>b, <1>c, <1>e, <1>f, <1>i
       DEF Park, Ended, Stages, Active, Orderly, Held, Whole
  <1>18. CASE Place(c)
    BY <1>18, <1>a, <1>b, <1>c, <1>e, <1>f, <1>i
       DEF Place, RollBack, Ended, Stages, Active, Orderly, Held, Whole
  <1>19. CASE Relaunch(c)
    <2>1. install \in Versions
      BY <1>19, <1>f DEF Relaunch, Held
    <2>2. ASSUME NEW d \in Clients PROVE Held(d)'
      <3>1. CASE d = c
        BY <1>19, <1>a, <1>b, <1>c, <1>f, <2>1, <3>1
           DEF Relaunch, Ended, Process, Orderly, Held, diskVars
      <3>2. CASE d # c
        BY <1>19, <1>a, <1>e, <2>1, <3>2 DEF Relaunch, Process, Held, diskVars
      <3> QED BY <3>1, <3>2
    <2> QED BY <1>19, <1>e, <2>2 DEF Relaunch, diskVars, Whole
  <1>20. CASE Crash(c)
    BY <1>20, <1>a, <1>b, <1>c, <1>e, <1>f, <1>i
       DEF Crash, Ended, Stages, Active, Orderly, Held, Whole
  <1> QED
    BY <1>1, <1>2, <1>3, <1>4, <1>5, <1>6, <1>7, <1>8, <1>9, <1>10, <1>11, <1>12, <1>13,
       <1>14, <1>15, <1>16, <1>17, <1>18, <1>19, <1>20, <1>21
       DEF MainStep, WorkerStep, Stage2Step

-----------------------------------------------------------------------------
(* The invariant, and what follows from it *)

IInv == TypeOK /\ OrderlyAll /\ OneActive /\ DiskInv

LEMMA Invariance == Spec => []IInv
  <1>1. ASSUME Init PROVE IInv
    <2>1. TypeOK
      <3>1. Process("none", None) \in Processes /\ Ended \in Stages
        BY NewRecords
      <3> QED BY <1>1, <3>1 DEF Init, TypeOK, Contents
    <2>2. \A c \in Clients : Orderly(c) /\ ~Active(c) /\ Held(c)
      BY <1>1 DEF Init, Process, Ended, Orderly, Active, Held
    <2> QED BY <1>1, <2>1, <2>2 DEF Init, IInv, OrderlyAll, OneActive, DiskInv, Whole
  <1>2. ASSUME IInv, [Next]_vars PROVE IInv'
    BY <1>2, TypeStep, OrderlyStep, OneActiveStep, DiskStep DEF IInv
  <1> QED BY <1>1, <1>2, PTL DEF Spec

(* Every variable keeps to its kind.                                        *)
THEOREM TypeCorrect == Spec => []TypeOK
  <1>1. IInv => TypeOK
    BY DEF IInv
  <1> QED BY <1>1, Invariance, PTL

(* An update the player cancelled in time (Updater::Cancel before Run looks *)
(* at cancel_flag) is never handed to stage 2.                              *)
THEOREM CancelCorrect == Spec => []CancelHolds
  <1>1. IInv => CancelHolds
    BY DEF IInv, OrderlyAll, Orderly, CancelHolds
  <1> QED BY <1>1, Invariance, PTL

(* Stage 2 puts in place the release whose archive its client compared with *)
(* the hash it was offered, never a mix, whatever was offered since, as long *)
(* as no second client was opened beside it.                                *)
THEOREM InstallCorrect == Spec => []InstallsWhatWasVerified
  <1>1. IInv => InstallsWhatWasVerified
    BY DEF IInv, DiskInv, Whole, Held, InstallsWhatWasVerified
  <1> QED BY <1>1, Invariance, PTL

(* Failed renames and a stage 2 that dies never leave the player without a  *)
(* whole release on disk, as long as no second client was opened.           *)
THEOREM WholeCorrect == Spec => []WholeReleaseStays
  <1>1. IInv => WholeReleaseStays
    BY DEF IInv, DiskInv, Whole, WholeReleaseStays
  <1> QED BY <1>1, Invariance, PTL
=============================================================================
