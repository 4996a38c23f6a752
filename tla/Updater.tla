------------------------------- MODULE Updater --------------------------------
(***************************************************************************)
(* The client's self-update, as it runs on macOS.  A client the lobby       *)
(* refuses for its version offers the update; the player consents; a worker *)
(* thread downloads and verifies it; the main loop starts stage 2, a        *)
(* process of its own, and the client ends; stage 2 puts the new version in *)
(* the place of the old one and starts it.                                  *)
(*                                                                         *)
(* A client is a slot for a process: its main thread, its worker and the    *)
(* stage 2 it started.  All of them share one installation, its two         *)
(* siblings .new and .old, and one file for the download.                   *)
(*                                                                         *)
(* Source: clients/silencer/src/updater/updater.cpp, updaterstage2.cpp,     *)
(* game/session/lobby_connect_flow.cpp, client/ui/screens/update_screen.cppx*)
(***************************************************************************)
EXTENDS Naturals

CONSTANTS
    Clients,  \* slots for the client processes of this machine
    Versions, \* releases: what a bundle or a downloaded archive holds
    First,    \* the release installed by hand
    None,     \* no bundle, no archive, no offer
    Torn,     \* part of a bundle or of an archive, or a mix of two
    RetryCap  \* how often the screen offers Retry (update_screen.cppx: 3)

ASSUME FirstAssumption == First \in Versions
ASSUME MarkAssumption == {None, Torn} \cap Versions = {} /\ None # Torn
ASSUME RetryAssumption == RetryCap \in Nat

Contents == Versions \cup {None, Torn}

VARIABLES
    client,   \* each client process
    stage2,   \* how far the stage 2 each client started has come
    install, staged, old, \* the bundle, <bundle>.new and <bundle>.old
    zip,      \* /tmp/silencer-update.zip
    second    \* history: the player started a client beside another process

diskVars == <<install, staged, old, zip>>
vars == <<client, stage2, diskVars, second>>

States == {"IDLE", "PROMPTING", "DOWNLOADING", "VERIFYING", "STAGING", "FAILED"}

(* run is "joining" while Consent waits for the last worker, "exiting" from *)
(* the main loop's end to that of the process; the worker is "checked"      *)
(* between its look at cancel_flag and VERIFYING, "handing" between the     *)
(* comparison of the hashes and STAGING.  Two fields are history: stopped,  *)
(* the player cancelled before that look and has not consented again;       *)
(* verified, the release whose archive the last comparison found good.      *)
Processes ==
    [run : {"none", "starting", "up", "joining", "exiting"},
     version : Versions \cup {None}, updating : BOOLEAN,
     state : States, sha : Versions \cup {None}, cancel : BOOLEAN,
     retries : 0 .. RetryCap,
     worker : {"none", "fetching", "checked", "verifying", "handing"},
     stopped : BOOLEAN, verified : Versions \cup {None}]

Process(run, v) ==
    [run |-> run, version |-> v, updating |-> FALSE, state |-> "IDLE",
     sha |-> None, cancel |-> FALSE, retries |-> 0, worker |-> "none",
     stopped |-> FALSE, verified |-> None]

(* release is history: the one the client that launched it verified         *)
Stages ==
    [at : {"none", "waiting", "extracting", "parking", "placing", "relaunching"},
     release : Versions \cup {None}]

Ended == [at |-> "none", release |-> None]

TypeOK ==
    /\ client \in [Clients -> Processes]
    /\ stage2 \in [Clients -> Stages]
    /\ {install, staged, old, zip} \subseteq Contents
    /\ second \in BOOLEAN

Init ==
    /\ client = [c \in Clients |-> Process("none", None)]
    /\ stage2 = [c \in Clients |-> Ended]
    /\ install = First
    /\ staged = None /\ old = None /\ zip = None
    /\ second = FALSE

-----------------------------------------------------------------------------
(* The client's main thread *)

Free(c) == client[c].run = "none" /\ stage2[c].at = "none"

(* The player opens the installed bundle *)
Open(c) ==
    /\ Free(c)
    /\ install \in Versions
    /\ client' = [client EXCEPT ![c] = Process("starting", install)]
    /\ second' = (second \/ \E d \in Clients : ~Free(d))
    /\ UNCHANGED <<stage2, diskVars>>

CleanupPreviousUpdate(c) ==
    /\ client[c].run = "starting"
    /\ client' = [client EXCEPT ![c].run = "up"]
    /\ old' = None
    /\ UNCHANGED <<stage2, install, staged, zip, second>>

(* The lobby refuses this version and names another, on a connection made   *)
(* from any screen but the update's                                         *)
Refused(c, v) ==
    /\ client[c].run = "up" /\ ~client[c].updating
    /\ v # client[c].version

(* The update screen opens, whatever a worker may still be doing *)
PresentUpdate(c, v) ==
    /\ Refused(c, v)
    /\ client' = [client EXCEPT ![c].sha = v, ![c].state = "PROMPTING",
                                ![c].updating = TRUE]
    /\ UNCHANGED <<stage2, diskVars, second>>

(* The update screen is open and shows one of these phases *)
Shows(c, phases) ==
    /\ client[c].run = "up" /\ client[c].updating
    /\ client[c].state \in phases

(* Mutant of Update: the flag is reset before the last worker is joined *)
UpdateUncancels(c) ==
    /\ Shows(c, {"PROMPTING"})
    /\ client' = [client EXCEPT ![c].run = "joining", ![c].cancel = FALSE]
    /\ UNCHANGED <<stage2, diskVars, second>>

(* Update and Retry begin with a join of the last worker *)
Update(c) ==
    /\ Shows(c, {"PROMPTING"})
    /\ client' = [client EXCEPT ![c].run = "joining"]
    /\ UNCHANGED <<stage2, diskVars, second>>

(* Mutant of Retry: the screen does not count *)
RetryUncounted(c) ==
    /\ Shows(c, {"FAILED"})
    /\ client' = [client EXCEPT ![c].retries = @ + 1, ![c].run = "joining"]
    /\ UNCHANGED <<stage2, diskVars, second>>

Retry(c) ==
    /\ Shows(c, {"FAILED"})
    /\ client[c].retries < RetryCap
    /\ client' = [client EXCEPT ![c].retries = @ + 1, ![c].run = "joining"]
    /\ UNCHANGED <<stage2, diskVars, second>>

Consent(c) ==
    /\ client[c].run = "joining"
    /\ client[c].worker = "none"
    /\ client' = IF client[c].state \in {"PROMPTING", "FAILED"}
                 THEN [client EXCEPT ![c].run = "up", ![c].state = "DOWNLOADING",
                                     ![c].cancel = FALSE, ![c].stopped = FALSE,
                                     ![c].worker = "fetching"]
                 ELSE [client EXCEPT ![c].run = "up"]
    /\ UNCHANGED <<stage2, diskVars, second>>

(* The button closes the screen and leaves the worker to see the flag *)
Cancel(c) ==
    /\ Shows(c, {"PROMPTING", "DOWNLOADING", "FAILED"})
    /\ client' = [client EXCEPT ![c].cancel = TRUE, ![c].updating = FALSE,
                                ![c].stopped = @ \/ client[c].worker = "fetching"]
    /\ UNCHANGED <<stage2, diskVars, second>>

(* The helper is in the bundle; fork may fail all the same *)
CanLaunch == install \in Versions

(* Every frame.  stage2attempted needs no variable: a launch that failed    *)
(* leaves STAGING.                                                          *)
PumpStage2(c) ==
    /\ client[c].run = "up"
    /\ client[c].state = "STAGING"
    /\ \/ /\ CanLaunch
          /\ client' = [client EXCEPT ![c].run = "exiting"]
          /\ stage2' = [stage2 EXCEPT ![c] = [at |-> "waiting", release |-> client[c].verified]]
       \/ /\ client' = [client EXCEPT ![c].state = "FAILED"]
          /\ UNCHANGED stage2
    /\ UNCHANGED <<diskVars, second>>

(* The player quits, after the frame's PumpStage2: ~Updater sets the flag   *)
(* and joins the worker.                                                    *)
Quit(c) ==
    /\ client[c].run = "up"
    /\ client[c].state # "STAGING"
    /\ client' = [client EXCEPT ![c].run = "exiting", ![c].cancel = TRUE,
                                ![c].stopped = @ \/ client[c].worker = "fetching"]
    /\ UNCHANGED <<stage2, diskVars, second>>

Exit(c) ==
    /\ client[c].run = "exiting"
    /\ client[c].worker = "none"
    /\ client' = [client EXCEPT ![c] = Process("none", None)]
    /\ UNCHANGED <<stage2, diskVars, second>>

(* The process is killed, and leaves what it was writing or removing in part*)
Die(c) ==
    /\ client[c].run # "none"
    /\ client' = [client EXCEPT ![c] = Process("none", None)]
    /\ zip' = IF client[c].worker = "fetching" THEN Torn ELSE zip
    /\ old' = IF client[c].run = "starting" /\ old # None THEN Torn ELSE old
    /\ UNCHANGED <<stage2, install, staged, second>>

-----------------------------------------------------------------------------
(* Updater::Run, the worker thread *)

(* The download ends, whole or not, with the release asked for or another   *)
Fetch == zip' \in Versions \cup {Torn}

Fetched(c) ==
    /\ client[c].worker = "fetching"
    /\ Fetch
    /\ client' = IF client[c].cancel \/ zip' = Torn
                 THEN [client EXCEPT ![c].state = "FAILED", ![c].worker = "none"]
                 ELSE [client EXCEPT ![c].worker = "checked"]
    /\ UNCHANGED <<stage2, install, staged, old, second>>

BeginVerify(c) ==
    /\ client[c].worker = "checked"
    /\ client' = [client EXCEPT ![c].state = "VERIFYING", ![c].worker = "verifying"]
    /\ UNCHANGED <<stage2, diskVars, second>>

(* No lock is held: an offer made meanwhile counts if it came before this.  *)
(* A mix of two hashes is no archive's, and fails as the later one would.   *)
VerifyFile(c) == zip = client[c].sha

Compared(c) ==
    /\ client[c].worker = "verifying"
    /\ client' = IF VerifyFile(c)
                 THEN [client EXCEPT ![c].worker = "handing", ![c].verified = zip]
                 ELSE [client EXCEPT ![c].worker = "none", ![c].state = "FAILED"]
    /\ UNCHANGED <<stage2, diskVars, second>>

(* Whatever has been offered since, the archive that was compared is staged *)
HandOff(c) ==
    /\ client[c].worker = "handing"
    /\ client' = [client EXCEPT ![c].worker = "none", ![c].state = "STAGING"]
    /\ UNCHANGED <<stage2, diskVars, second>>

-----------------------------------------------------------------------------
(* UpdaterStage2::Run *)

(* Mutant of RemoveLeftovers: only .old is removed *)
RemoveOld(c) ==
    /\ stage2[c].at = "waiting"
    /\ old' = None
    /\ stage2' = [stage2 EXCEPT ![c].at = "extracting"]
    /\ UNCHANGED <<client, install, staged, zip, second>>

(* WaitForPidExit gives up after ten seconds: the parent may be there yet.  *)
RemoveLeftovers(c) ==
    /\ stage2[c].at = "waiting"
    /\ staged' = None
    /\ old' = None
    /\ stage2' = [stage2 EXCEPT ![c].at = "extracting"]
    /\ UNCHANGED <<client, install, zip, second>>

(* Unpacked over leftovers a bundle is a mix of both *)
Unpacked == IF staged = None THEN zip ELSE Torn

(* Without a whole archive stage 2 starts the old version again *)
Extract(c) ==
    /\ stage2[c].at = "extracting"
    /\ \/ /\ zip \in Versions
          /\ staged' = Unpacked
          /\ stage2' = [stage2 EXCEPT ![c].at = "parking"]
       \/ /\ staged' = Torn
          /\ stage2' = [stage2 EXCEPT ![c].at = "relaunching"]
    /\ UNCHANGED <<client, install, old, zip, second>>

(* rename(2) fails onto a directory that is not empty, and may fail anyway. *)
Park(c) ==
    /\ stage2[c].at = "parking"
    /\ \/ /\ install # None /\ old = None
          /\ old' = install
          /\ install' = None
          /\ stage2' = [stage2 EXCEPT ![c].at = "placing"]
       \/ /\ stage2' = [stage2 EXCEPT ![c] = Ended]
          /\ UNCHANGED <<install, old>>
    /\ UNCHANGED <<client, staged, zip, second>>

(* A failed rollback is not noticed *)
RollBack ==
    \/ /\ install = None /\ old # None
       /\ install' = old
       /\ old' = None
    \/ UNCHANGED <<install, old>>

(* Mutant of Place: .old is removed before the rename, not at the next start*)
PlaceTidily(c) ==
    /\ stage2[c].at = "placing"
    /\ old' = None
    /\ \/ /\ install = None /\ staged # None
          /\ install' = staged
          /\ staged' = None
          /\ stage2' = [stage2 EXCEPT ![c].at = "relaunching"]
       \/ /\ stage2' = [stage2 EXCEPT ![c] = Ended]
          /\ UNCHANGED <<install, staged>>
    /\ UNCHANGED <<client, zip, second>>

Place(c) ==
    /\ stage2[c].at = "placing"
    /\ \/ /\ install = None /\ staged # None
          /\ install' = staged
          /\ staged' = None
          /\ stage2' = [stage2 EXCEPT ![c].at = "relaunching"]
          /\ UNCHANGED old
       \/ /\ RollBack
          /\ stage2' = [stage2 EXCEPT ![c] = Ended]
          /\ UNCHANGED staged
    /\ UNCHANGED <<client, zip, second>>

(* exec of the bundle's binary, in a process of its own; it may fail *)
Relaunch(c) ==
    /\ stage2[c].at = "relaunching"
    /\ stage2' = [stage2 EXCEPT ![c] = Ended]
    /\ \/ \E d \in Clients :
             /\ client[d].run = "none" /\ (d = c \/ stage2[d].at = "none")
             /\ install \in Versions
             /\ client' = [client EXCEPT ![d] = Process("starting", install)]
       \/ UNCHANGED client
    /\ UNCHANGED <<diskVars, second>>

(* Stage 2 dies, and leaves what it was unpacking or removing in part *)
Crash(c) ==
    /\ stage2[c].at # "none"
    /\ stage2' = [stage2 EXCEPT ![c] = Ended]
    /\ \/ /\ stage2[c].at = "waiting" /\ staged # None
          /\ staged' = Torn
          /\ UNCHANGED old
       \/ /\ stage2[c].at = "waiting" /\ old # None
          /\ old' = Torn
          /\ UNCHANGED staged
       \/ /\ stage2[c].at = "extracting"
          /\ staged' = Torn
          /\ UNCHANGED old
       \/ UNCHANGED <<staged, old>>
    /\ UNCHANGED <<client, install, zip, second>>

Next ==
    \E c \in Clients :
        \/ Open(c) \/ CleanupPreviousUpdate(c)
        \/ \E v \in Versions : PresentUpdate(c, v)
        \/ Update(c) \/ Retry(c) \/ Consent(c) \/ Cancel(c)
        \/ PumpStage2(c) \/ Quit(c) \/ Exit(c) \/ Die(c)
        \/ Fetched(c) \/ BeginVerify(c) \/ Compared(c) \/ HandOff(c)
        \/ RemoveLeftovers(c) \/ Extract(c) \/ Park(c) \/ Place(c)
        \/ Relaunch(c) \/ Crash(c)

Spec == Init /\ [][Next]_vars

-----------------------------------------------------------------------------
(* A cancel that comes before the worker looks for it is the end of that    *)
(* update: it is never handed to stage 2, even if the player reconnects and *)
(* is offered the update anew while the worker still runs.                  *)
CancelHolds == \A c \in Clients : client[c].stopped => client[c].state # "STAGING"

(* The bundle is never a mix, and what stage 2 is about to put in its place *)
(* is the release whose archive its own client compared with the hash it    *)
(* was offered, whatever an update that failed or crashed has left behind;  *)
(* unless the player started a second client beside the first or beside     *)
(* stage 2.  An offer that comes after the comparison changes nothing.      *)
InstallsWhatWasVerified ==
    ~second => /\ install # Torn
               /\ \A c \in Clients :
                      stage2[c].at \in {"parking", "placing"} => staged = stage2[c].release

(* Whatever rename fails and wherever stage 2 dies, a whole release is      *)
(* left, in place or as .old; with the same proviso.                        *)
WholeReleaseStays == ~second => install \in Versions \/ old \in Versions

(* updaterstage2.h:13-15: a client's start removes "stale updater          *)
(* leftovers from a prior" update, so never the only copy of the release    *)
(* that a running stage 2 has parked.                                       *)
OnlyStaleLeftovers ==
    [][\A c \in Clients :
          client[c].run = "starting" /\ client'[c].run = "up" =>
              \A d \in Clients : stage2[d].at # "placing"]_vars
=============================================================================
