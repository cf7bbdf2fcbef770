------------------------------ MODULE AuxClient ------------------------------
(***************************************************************************)
(* A connection of an aux service (network/auxclient.cpp) and the script   *)
(* that was started for it: the thread reads lines without PolLock, takes  *)
(* it to turn each into an event of that script, and finds out by a weak   *)
(* pointer that the script has ended.  The script's object for the         *)
(* connection points at the thread's.                                      *)
(***************************************************************************)
EXTENDS EventQueue

VARIABLES thread,      \* "read", "lock" (it has read, and waits for PolLock), "leave", "ended"
          line,        \* result: readline() has a line, or its time was over
          peer,        \* "open" or "closed"; exit_signalled closes all
          connected    \* AuxConnection::_auxclientthread # NULL

aux == << thread, line, peer, connected >>
allvars == << vars, aux >>

\* init() has made the AuxConnection and has started the script with it.
AuxInit ==
    /\ Init
    /\ thread = "read" /\ line = FALSE /\ peer = "open" /\ connected = TRUE

Hangup ==
    /\ peer = "open"
    /\ peer' = "closed"
    /\ UNCHANGED << vars, thread, line, connected >>

\* readline() returns: a line, nothing for five seconds, or the end.
Readline ==
    /\ thread = "read"
    /\ \/ /\ peer = "open"
          /\ line' \in IF sent < MaxEvents THEN BOOLEAN ELSE {FALSE}
          /\ thread' = "lock"
       \/ /\ peer = "closed"
          /\ thread' = "leave"
          /\ UNCHANGED line
    /\ UNCHANGED << vars, peer, connected >>

\* Bug: looks for the script when it has a line for it.
HandleLines ==
    /\ thread = "lock"
    /\ \/ /\ at # "ended" \/ ~line
          /\ IF line THEN Send ELSE UNCHANGED vars
          /\ thread' = "read" /\ line' = FALSE
       \/ /\ at = "ended" /\ line
          /\ thread' = "leave"
          /\ UNCHANGED << vars, line >>
    /\ UNCHANGED << peer, connected >>

\* With PolLock: _uoexec.exists(), and signal_event().
Handle ==
    /\ thread = "lock"
    /\ \/ /\ at # "ended"
          /\ IF line THEN Send ELSE UNCHANGED vars
          /\ thread' = "read" /\ line' = FALSE
       \/ /\ at = "ended"
          /\ thread' = "leave"
          /\ UNCHANGED << vars, line >>
    /\ UNCHANGED << peer, connected >>

\* With PolLock again; then the thread's object is deleted.
Leave ==
    /\ thread = "leave"
    /\ connected' = FALSE
    /\ thread' = "ended"
    /\ UNCHANGED << vars, line, peer >>

\* The last event that is sent (a bound) is left to a line that has been read.
SendElse == Send /\ (line => sent + 1 < MaxEvents)
NPCElse  == NPCSend /\ (line => sent + 1 < MaxEvents)

AuxNext ==
    \/ Readline \/ Handle \/ Leave \/ Hangup
    \/ /\ \/ SendElse \/ NPCElse \/ Answer \/ Kill \/ clear_event_queue \/ Reconfigure
          \/ check_blocked \/ Script
       /\ UNCHANGED aux

AuxSpec == AuxInit /\ [][AuxNext]_allvars

\* The threads run, and readline() gives up after some seconds.
AuxFairSpec ==
    /\ AuxSpec
    /\ WF_allvars(Readline) /\ WF_allvars(Handle) /\ WF_allvars(Leave)
    /\ WF_allvars(check_blocked /\ UNCHANGED aux) /\ WF_allvars(Resume /\ UNCHANGED aux)
    /\ WF_allvars(error /\ Delete /\ UNCHANGED aux)

-----------------------------------------------------------------------------
(* Properties.                                                             *)

(* A connection ends: the thread finds out that its script has ended or that
   the peer has closed, and the script's object says so. *)
Disconnects == (peer = "closed" \/ at = "ended") ~> ~connected
=============================================================================
