---------------------------- MODULE ClientRequests ----------------------------
(***************************************************************************)
(* Scripts that ask a player for something (module/uomod.cpp, uomod2.cpp,  *)
(* unimod.cpp) and sleep until the client answers: a target, a menu, a     *)
(* gump, text, a colour.  The request is kept twice, in the ClientGameData *)
(* of the client (network/cgdata.cpp) and in the script's module, and must *)
(* survive answers that come late, scripts that are killed, connections    *)
(* that end (network/clientthread.cpp) and a second connection that takes  *)
(* the character over (pol.cpp).  One character; a step holds PolLock.     *)
(***************************************************************************)
EXTENDS FiniteSets, Naturals

CONSTANTS Scripts,
          Skill,     \* the script that chr->script_ex points at, or none
          Clients,   \* connections, each of which comes and goes once
          None,      \* NULL
          Asked,     \* bound: the kinds of request that scripts make
          MaxShown,  \* bound: what a client has on its screen at once
          Misuse     \* "overlap", "takeover_cursor", "takeover_exit": see there

Prompts == {"prompt", "uniprompt"}
Kinds   == Prompts \cup {"target", "menu", "gump", "textentry", "resurrect", "selcolor"}

ASSUME RequestAssumption ==
    /\ None \notin Scripts \cup Clients \cup Kinds \cup {"script", "core"}
    /\ Skill \subseteq Scripts
    /\ Asked \subseteq Kinds /\ MaxShown \in Nat
    /\ Misuse \subseteq {"overlap", "takeover_cursor", "takeover_exit"}

VARIABLES slot,       \* slot[c][k]: gumpmods, textentry_uoemod, ... of client->gd
          asks,       \* asks[s]: which of gump_chr, textentry_chr, ... is set
          blocked,    \* the scripts that have suspend()ed
          dying,      \* the scripts that have been killed; see Destroy
          tcursor2,   \* chr->tcursor2: None, a "script" cursor or one of the "core"
          menu,       \* chr->menu, by the script that sent it
          chr_client, \* chr->client
          has_chr,    \* the clients with client->chr
          active,     \* acct->active_character # NULL
          connected,  \* the clients that are isActive()
          io,         \* io[c]: where the thread of client c is
          shown       \* shown[c]: requests that c has not answered, and whose they are

requests == << slot, asks, blocked >>
chr      == << tcursor2, menu >>
client   == << chr_client, has_chr, active, connected, io >>
vars     == << requests, dying, chr, client, shown >>

Init ==
    /\ slot = [c \in Clients |-> [k \in Kinds |-> {}]]
    /\ asks = [s \in Scripts |-> None]
    /\ blocked = {} /\ dying = {}
    /\ tcursor2 = None /\ menu = None
    /\ chr_client = None /\ has_chr = {} /\ active = FALSE
    /\ connected = {}
    /\ io = [c \in Clients |-> "off"]
    /\ shown = [c \in Clients |-> {}]

-----------------------------------------------------------------------------
(* Waking scripts.                                                         *)

\* revive(), and its *_chr = NULL.
Wake(S) ==
    /\ blocked' = blocked \ S
    /\ asks' = [s \in Scripts |-> IF s \in S THEN None ELSE asks[s]]

\* Whoever waits for the client's k.
Answered(c, k) ==
    /\ Wake(slot[c][k])
    /\ slot' = [slot EXCEPT ![c][k] = {}]

AllOf(c) == UNION { slot[c][k] : k \in Kinds }

\* Bug: forgets the prompts for unicode.
clearASCII(c) ==
    /\ Wake(UNION { slot[c][k] : k \in Kinds \ {"uniprompt"} })
    /\ slot' = [slot EXCEPT ![c] = [k \in Kinds |-> {}]]

\* ClientGameData::clear().
clear(c) ==
    /\ Wake(AllOf(c))
    /\ slot' = [slot EXCEPT ![c] = [k \in Kinds |-> {}]]

-----------------------------------------------------------------------------
(* The scripts.                                                            *)

Running(s) == s \notin blocked /\ asks[s] = None /\ s \notin dying

IsActive == chr_client \in connected

\* Bug: looks only for scripts.
target_cursor_busyScripts == slot[chr_client]["target"] # {}

target_cursor_busy == tcursor2 # None \/ slot[chr_client]["target"] # {}

has_active_prompt == \E k \in Prompts : slot[chr_client][k] # {}

\* PromptInput() asks clients that have gone, too, and SelectColor() looks for
\* somebody else's request.
MayAsk(k) ==
    CASE k = "target"    -> IsActive /\ ~target_cursor_busy
      [] k = "menu"      -> IsActive /\ slot[chr_client]["menu"] = {}
      [] k = "prompt"    -> ~has_active_prompt
      [] k = "uniprompt" -> IsActive /\ ~has_active_prompt
      [] k = "resurrect" -> IsActive /\ slot[chr_client]["resurrect"] = {}
      [] k = "selcolor"  -> IsActive /\ slot[chr_client]["resurrect"] = {}
      [] OTHER           -> IsActive

\* Misuse "overlap": a text entry or a colour is asked for while another script
\* waits for one.  The second takes the place of the first, which sleeps on.
Overlaps(k) == k \in {"textentry", "selcolor"} /\ slot[chr_client][k] # {}

Show(c, request) ==
    shown' = IF io[c] = "game" THEN [shown EXCEPT ![c] = @ \cup {request}] ELSE shown

\* Target(), TargetCoordinates(), TargetMultiPlacement(); SelectMenuItem();
\* SendDialogGump(); PromptInput(), RequestInputUC(); SendTextEntryGump();
\* SendInstaResDialog(); SelectColor().
Ask(s, k) ==
    /\ Running(s) /\ chr_client # None
    /\ MayAsk(k)
    /\ Overlaps(k) => "overlap" \in Misuse
    /\ Cardinality(shown[chr_client]) < MaxShown
    /\ slot' = [slot EXCEPT ![chr_client][k] = IF k = "gump" THEN @ \cup {s} ELSE {s}]
    /\ asks' = [asks EXCEPT ![s] = k]
    /\ blocked' = blocked \cup {s}
    /\ tcursor2' = IF k = "target" THEN "script" ELSE tcursor2
    /\ menu' = IF k = "menu" THEN s ELSE menu
    /\ Show(chr_client, << k, s >>)
    /\ UNCHANGED << dying, client >>

\* CloseGump() by another script; the client may have answered already.
CloseGump(s) ==
    /\ IsActive /\ s \in slot[chr_client]["gump"]
    /\ Wake({s})
    /\ slot' = [slot EXCEPT ![chr_client]["gump"] = @ \ {s}]
    /\ UNCHANGED << dying, chr, client, shown >>

\* kill(), or the end of a skill script: it is revived with its error flag ...
Kill(s) ==
    /\ s \notin dying
    /\ dying' = dying \cup {s}
    /\ blocked' = blocked \ {s}
    /\ UNCHANGED << slot, asks, chr, client, shown >>

\* Bug: cancels the cursor, which the client still has.
DestroyCancels(s) ==
    /\ s \in dying /\ asks[s] # None
    /\ slot' = IF chr_client = None THEN slot
               ELSE [slot EXCEPT ![chr_client][asks[s]] = IF asks[s] = "gump" THEN @ \ {s} ELSE {}]
    /\ asks' = [asks EXCEPT ![s] = None]
    /\ tcursor2' = IF asks[s] = "target" THEN None ELSE tcursor2
    /\ UNCHANGED << blocked, dying, menu, client, shown >>

\* ... and ~UOExecutorModule(), when run_ready() deletes it, withdraws its request.
Destroy(s) ==
    /\ s \in dying /\ asks[s] # None
    /\ slot' = IF chr_client = None THEN slot
               ELSE [slot EXCEPT ![chr_client][asks[s]] = IF asks[s] = "gump" THEN @ \ {s} ELSE {}]
    /\ asks' = [asks EXCEPT ![s] = None]
    /\ UNCHANGED << blocked, dying, chr, client, shown >>

\* A cursor of the core's own, for a party or a command.
CoreCursor ==
    /\ IsActive /\ ~target_cursor_busy
    /\ Cardinality(shown[chr_client]) < MaxShown
    /\ tcursor2' = "core"
    /\ Show(chr_client, << "target", None >>)
    /\ UNCHANGED << requests, dying, menu, client >>

-----------------------------------------------------------------------------
(* The answers.                                                            *)

\* A client that has lost its character has the disconnected_filter.
Takes(c, request) ==
    /\ io[c] = "game" /\ c \in has_chr /\ request \in shown[c]
    /\ shown' = [shown EXCEPT ![c] = @ \ {request}]
    /\ UNCHANGED << dying, client >>

\* handle_target_cursor(): a choice and a cancellation wake the script alike; a
\* cursor that is not the one in tcursor2 cancels that.
AnswerTarget(c, s) ==
    /\ Takes(c, << "target", s >>)
    /\ tcursor2' = None
    /\ IF tcursor2 = (IF s = None THEN "core" ELSE "script") /\ s # None
       THEN Answered(c, "target")
       ELSE UNCHANGED requests
    /\ UNCHANGED menu

\* handle_menu_selection(): another menu than the last cancels that one.
AnswerMenu(c, s) ==
    /\ Takes(c, << "menu", s >>)
    /\ menu' = None
    /\ IF menu # None THEN Answered(c, "menu") ELSE UNCHANGED requests
    /\ UNCHANGED tcursor2

\* gumpbutton_handler() finds the script by its pid.
AnswerGump(c, s) ==
    /\ Takes(c, << "gump", s >>)
    /\ Wake(slot[c]["gump"] \cap {s})
    /\ slot' = [slot EXCEPT ![c]["gump"] = @ \ {s}]
    /\ UNCHANGED chr

\* handle_prompt(), handle_unicode_prompt(), handle_textentry(),
\* handle_resurrect_menu(), handle_selcolor(): these answers do not tell whose
\* request they answer.
AnswerOther(c, k, s) ==
    /\ Takes(c, << k, s >>)
    /\ Answered(c, k)
    /\ UNCHANGED chr

-----------------------------------------------------------------------------
(* A connection.                                                           *)

\* Misuse: a second connection takes the character over while a cursor is up
\* (tcursor2 stays, and keeps every script from targeting), or when the thread
\* of the first has seen client->chr and waits for the lock to use it.
TakesOver(c) ==
    /\ tcursor2 # None => "takeover_cursor" \in Misuse
    /\ io[chr_client] = "cleanup" => "takeover_exit" \in Misuse

char_select(c) ==
    /\ io[c] = "off"
    /\ IF chr_client # None
       THEN /\ TakesOver(c)
            /\ clear(chr_client)
            /\ connected' = (connected \ {chr_client}) \cup {c}
            /\ has_chr' = (has_chr \ {chr_client}) \cup {c}
       ELSE /\ UNCHANGED requests
            /\ connected' = connected \cup {c}
            /\ has_chr' = has_chr \cup {c}
    /\ active' = TRUE
    /\ chr_client' = c
    /\ io' = [io EXCEPT ![c] = "game"]
    /\ UNCHANGED << dying, chr, shown >>

\* The socket breaks, or somebody disconnects the client.
Break(c) ==
    /\ io[c] = "game" /\ c \in connected
    /\ connected' = connected \ {c}
    /\ UNCHANGED << requests, dying, chr, chr_client, has_chr, active, io, shown >>

Goto(c, label) == io' = [io EXCEPT ![c] = label]

\* The loop of client_io_thread() ends, and the client is no longer in the list:
\* because the client was disconnected, which isActive() tells, or because of an
\* error of select() or an exception of a handler, which it does not.
Close(c) ==
    /\ io[c] = "game"
    /\ Goto(c, "closed")
    /\ shown' = [shown EXCEPT ![c] = {}]
    /\ UNCHANGED << requests, dying, chr, chr_client, has_chr, active, connected >>

\* if (client->chr), without the lock.
Test(c) ==
    /\ io[c] = "closed"
    /\ Goto(c, IF c \in has_chr THEN "cleanup" ELSE "delete")
    /\ UNCHANGED << requests, dying, chr, chr_client, has_chr, active, connected, shown >>

\* disconnect_cleanup() with its stop_skill_script(), gd->clear().
Cleanup(c) ==
    /\ io[c] = "cleanup"
    /\ tcursor2' = None
    /\ dying' = dying \cup Skill
    /\ clear(c)
    /\ Goto(c, "linger")
    /\ UNCHANGED << menu, chr_client, has_chr, active, connected, shown >>

\* Bug: the character stays while a script asks for it.
LogoffAsked(c) ==
    /\ io[c] = "linger" /\ AllOf(c) = {}
    /\ Goto(c, "delete")
    /\ UNCHANGED << requests, dying, chr, chr_client, has_chr, active, connected, shown >>

\* The time that logofftest.ecl wants is over, and the logoff scripts have run.
Logoff(c) ==
    /\ io[c] = "linger"
    /\ Goto(c, "delete")
    /\ UNCHANGED << requests, dying, chr, chr_client, has_chr, active, connected, shown >>

\* Client::Delete(): removal_cleanup() if it is still this client's character,
\* the two pointers, and ~ClientGameData().
Delete(c) ==
    /\ io[c] = "delete"
    /\ IF active /\ chr_client = c
       THEN active' = FALSE /\ tcursor2' = None /\ dying' = dying \cup Skill
       ELSE UNCHANGED << active, tcursor2, dying >>
    /\ chr_client' = IF c \in has_chr /\ chr_client = c THEN None ELSE chr_client
    /\ has_chr' = has_chr \ {c}
    /\ clear(c)
    /\ Goto(c, "gone")
    /\ connected' = connected \ {c}
    /\ UNCHANGED << menu, shown >>

Leaves(c) == Close(c) \/ Test(c) \/ Cleanup(c) \/ Logoff(c) \/ Delete(c)

Answer(c, s) ==
    \/ AnswerTarget(c, s) \/ AnswerMenu(c, s) \/ AnswerGump(c, s)
    \/ \E k \in Kinds \ {"target", "menu", "gump"} : AnswerOther(c, k, s)

Next ==
    \/ \E s \in Scripts : (\E k \in Asked : Ask(s, k)) \/ CloseGump(s) \/ Kill(s) \/ Destroy(s)
    \/ CoreCursor
    \/ \E c \in Clients : \/ \E s \in Scripts \cup {None} : Answer(c, s)
                          \/ char_select(c) \/ Break(c) \/ Leaves(c)

Spec == Init /\ [][Next]_vars

\* The client of the character has left the game or is about to.
Gone == chr_client \notin connected \/ io[chr_client] # "game"

\* A disconnected client's thread leaves its loop, and a thread that has left it
\* goes on to its end; the player does nothing for sure, and the wait before the
\* logoff has a time.
FairSpec ==
    Spec /\ \A c \in Clients :
                WF_vars(Leaves(c) /\ (io[c] = "game" => c \notin connected))

-----------------------------------------------------------------------------
(* Properties.                                                             *)

(* The variables keep their types; gumps aside, a client has one request of a
   kind at a time, and one prompt of either kind. *)
TypeOK ==
    /\ slot \in [Clients -> [Kinds -> SUBSET Scripts]]
    /\ asks \in [Scripts -> Kinds \cup {None}]
    /\ blocked \subseteq Scripts /\ dying \subseteq Scripts
    /\ tcursor2 \in {None, "script", "core"} /\ menu \in Scripts \cup {None}
    /\ chr_client \in Clients \cup {None} /\ has_chr \subseteq Clients /\ active \in BOOLEAN
    /\ connected \subseteq Clients
    /\ io \in [Clients -> {"off", "game", "closed", "cleanup", "linger", "delete", "gone"}]
    /\ shown \in [Clients -> SUBSET (Kinds \X (Scripts \cup {None}))]
    /\ \A c \in Clients, k \in Kinds \ {"gump"} : Cardinality(slot[c][k]) <= 1
    /\ \A c \in Clients : slot[c]["prompt"] = {} \/ slot[c]["uniprompt"] = {}

(* chr->client and client->chr point at each other, or both at nothing: the
   handlers go from one to the other and back without a test. *)
PointersAgree == \A c \in Clients : c \in has_chr <=> chr_client = c

(* A script's module names the character exactly while the character's present
   client, and no other, has the script in the place of that request: nothing
   else could wake it, and a destructor that finds the pointer uses it. *)
Registered ==
    /\ \A s \in Scripts, c \in Clients, k \in Kinds :
          s \in slot[c][k] <=> asks[s] = k /\ chr_client = c
    /\ chr_client = None => \A s \in Scripts : asks[s] = None

(* A script that sleeps has asked for something. *)
SleepersAsk == \A s \in blocked : asks[s] # None

(* Character, client and scripts agree on every request, whoever has ended, left,
   been taken over or asked in between: each request has one asker whom its
   answer or the end of the client can wake, and no asker is without one. *)
RequestsMatch == PointersAgree /\ Registered /\ SleepersAsk

(* A script that waits for a target has its cursor up, and a cursor that keeps
   others from targeting is one that the client can still answer. *)
CursorAgrees ==
    /\ chr_client # None /\ slot[chr_client]["target"] # {} => tcursor2 = "script"
    /\ tcursor2 # None =>
          /\ chr_client # None
          /\ io[chr_client] = "game" =>
                \E s \in Scripts \cup {None} :
                    << "target", s >> \in shown[chr_client] /\ (s = None <=> tcursor2 = "core")

(* The account knows its character as active while a client plays it: the end of
   a connection does not log off a character that another has taken over. *)
StaysLoggedIn == chr_client # None => active

(* An answer to a target or to a gump wakes the script that asked, if that script
   still waits for one, and no other script, whoever has asked since. *)
AnswersAsker ==
    [][\A c \in Clients, k \in {"target", "gump"}, s \in Scripts \cup {None} :
          << k, s >> \in shown[c] \ shown'[c] /\ io'[c] = "game" =>
              /\ blocked \ blocked' \subseteq {s}
              /\ s \in Scripts /\ asks[s] = k => s \notin blocked']_vars

(* A script does not sleep on when the client that it waits for has gone. *)
GoneClientsWake == \A s \in Scripts : s \in blocked /\ Gone ~> s \notin blocked \/ ~Gone
=============================================================================
