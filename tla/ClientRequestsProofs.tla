------------------------- MODULE ClientRequestsProofs -------------------------
(***************************************************************************)
(* Proofs about ClientRequests, for any number of scripts and connections  *)
(* and any bound on what a client shows, when no request takes another's   *)
(* place and no connection takes the character from a thread that is about *)
(* to use it (NoMisuse): both records of a request agree, the pointers     *)
(* between a character and its client agree, and nobody sleeps without a   *)
(* request.                                                                *)
(***************************************************************************)
EXTENDS ClientRequests, FiniteSetTheorems, TLAPS

(* A cursor that is up during a takeover does no harm to these. *)
NoMisuse == "overlap" \notin Misuse /\ "takeover_exit" \notin Misuse

(* Gumps aside, a place holds one script or none. *)
OneEach ==
    \A c \in Clients, k \in Kinds \ {"gump"} :
        slot[c][k] = {} \/ \E s \in Scripts : slot[c][k] = {s}

OnePrompt == \A c \in Clients : slot[c]["prompt"] = {} \/ slot[c]["uniprompt"] = {}

(* The types of both records of a request. *)
RequestTypes ==
    /\ slot \in [Clients -> [Kinds -> SUBSET Scripts]]
    /\ asks \in [Scripts -> Kinds \cup {None}]
    /\ blocked \subseteq Scripts

RequestInv == RequestTypes /\ OneEach /\ OnePrompt /\ SleepersAsk

(* The types of the rest. *)
OtherTypes ==
    /\ dying \subseteq Scripts
    /\ tcursor2 \in {None, "script", "core"} /\ menu \in Scripts \cup {None}
    /\ chr_client \in Clients \cup {None} /\ has_chr \subseteq Clients /\ active \in BOOLEAN
    /\ connected \subseteq Clients
    /\ io \in [Clients -> {"off", "game", "closed", "cleanup", "linger", "delete", "gone"}]
    /\ shown \in [Clients -> SUBSET (Kinds \X (Scripts \cup {None}))]

(* A script that has been killed has been woken. *)
DyingRun == dying \cap blocked = {}

(* The thread of a client that is about to clean up has the character. *)
CleansItsOwn == \A c \in Clients : io[c] = "cleanup" => c \in has_chr

IInv == /\ RequestInv /\ OtherTypes /\ PointersAgree /\ Registered /\ StaysLoggedIn
        /\ DyingRun /\ CleansItsOwn

LEMMA TypesHold == IInv => TypeOK
<1> SUFFICES ASSUME IInv PROVE TypeOK
  OBVIOUS
<1>1. ASSUME NEW c \in Clients, NEW k \in Kinds \ {"gump"}
      PROVE  Cardinality(slot[c][k]) <= 1
  <2>1. CASE slot[c][k] = {}
    BY <2>1, FS_EmptySet
  <2>2. CASE \E s \in Scripts : slot[c][k] = {s}
    <3>1. PICK s \in Scripts : slot[c][k] = {s}
      BY <2>2
    <3>2. Cardinality({s}) = 1
      BY FS_Singleton
    <3> QED
      BY <3>1, <3>2
  <2> QED
    BY <1>1, <2>1, <2>2 DEF IInv, RequestInv, OneEach
<1> QED
  BY <1>1 DEF IInv, RequestInv, RequestTypes, OtherTypes, OnePrompt, TypeOK

-----------------------------------------------------------------------------
(* What the helpers do.                                                    *)

(* Those who are woken have withdrawn their requests. *)
LEMMA WakeTypes ==
    ASSUME RequestInv, NEW S \in SUBSET Scripts, Wake(S)
    PROVE  /\ asks' \in [Scripts -> Kinds \cup {None}]
           /\ blocked' \subseteq Scripts
           /\ SleepersAsk'
           /\ \A s \in Scripts : asks'[s] = IF s \in S THEN None ELSE asks[s]
BY DEF RequestInv, RequestTypes, SleepersAsk, Wake

(* Waking some of those who wait for a client's k keeps both records. *)
LEMMA WithdrawKeeps ==
    ASSUME RequestInv, Registered,
           NEW c \in Clients, NEW k \in Kinds, NEW S \in SUBSET slot[c][k],
           Wake(S), slot' = [slot EXCEPT ![c][k] = @ \ S], chr_client' = chr_client
    PROVE  RequestInv' /\ Registered'
<1>1. slot' \in [Clients -> [Kinds -> SUBSET Scripts]] /\ S \in SUBSET Scripts
  BY DEF RequestInv, RequestTypes
<1>2. \A d \in Clients, j \in Kinds :
          slot'[d][j] = IF d = c /\ j = k THEN slot[c][k] \ S ELSE slot[d][j]
  BY DEF RequestInv, RequestTypes
<1>3. OneEach' /\ OnePrompt'
  <2>1. \A d \in Clients, j \in Kinds : slot'[d][j] \subseteq slot[d][j]
    BY <1>2
  <2>2. OneEach'
    BY <1>1, <2>1 DEF RequestInv, OneEach
  <2>3. OnePrompt'
    BY <2>1 DEF RequestInv, OnePrompt, Kinds, Prompts
  <2> QED
    BY <2>2, <2>3
<1>4. Registered'
  <2>1. ASSUME NEW s \in Scripts, NEW d \in Clients, NEW j \in Kinds
        PROVE  s \in slot'[d][j] <=> asks'[s] = j /\ chr_client' = d
    BY RequestAssumption, <1>1, <1>2, WakeTypes DEF Registered
  <2>2. chr_client' = None => \A s \in Scripts : asks'[s] = None
    BY <1>1, WakeTypes DEF Registered
  <2> QED
    BY <2>1, <2>2 DEF Registered
<1> QED
  BY <1>1, <1>3, <1>4, WakeTypes DEF RequestInv, RequestTypes

(* clear() leaves the client without requests, and nobody else loses one; when
   it was the character's client, nobody asks any more. *)
LEMMA ClearKeeps ==
    ASSUME RequestInv, Registered, chr_client \in Clients \cup {None},
           NEW c \in Clients, clear(c)
    PROVE  /\ RequestInv'
           /\ \A s \in Scripts, d \in Clients, k \in Kinds :
                  s \in slot'[d][k] <=> asks'[s] = k /\ chr_client = d /\ d # c
           /\ chr_client \in {c, None} => \A s \in Scripts : asks'[s] = None
<1>1. AllOf(c) \in SUBSET Scripts
  BY DEF AllOf, RequestInv, RequestTypes
<1>2. /\ slot' \in [Clients -> [Kinds -> SUBSET Scripts]]
      /\ \A d \in Clients, k \in Kinds : slot'[d][k] = IF d = c THEN {} ELSE slot[d][k]
  BY DEF RequestInv, RequestTypes, clear
<1>3. OneEach' /\ OnePrompt'
  <2>1. OneEach'
    BY <1>2 DEF RequestInv, OneEach
  <2>2. {"prompt", "uniprompt"} \subseteq Kinds
    BY DEF Kinds, Prompts
  <2>3. OnePrompt'
    BY <1>2, <2>2 DEF RequestInv, OnePrompt
  <2> QED
    BY <2>1, <2>3
<1>4. \A s \in Scripts : asks'[s] = IF s \in AllOf(c) THEN None ELSE asks[s]
  BY <1>1, WakeTypes DEF clear
<1>5. \A s \in Scripts : s \in AllOf(c) <=> asks[s] # None /\ chr_client = c
  BY RequestAssumption DEF AllOf, Registered, RequestInv, RequestTypes
<1>6. ASSUME NEW s \in Scripts, NEW d \in Clients, NEW k \in Kinds
      PROVE  s \in slot'[d][k] <=> asks'[s] = k /\ chr_client = d /\ d # c
  BY RequestAssumption, <1>2, <1>4, <1>5, <1>6 DEF Registered
<1>7. chr_client \in {c, None} => \A s \in Scripts : asks'[s] = None
  BY <1>4, <1>5 DEF Registered
<1>8. RequestInv'
  BY <1>1, <1>2, <1>3, WakeTypes DEF RequestInv, RequestTypes, clear
<1> QED
  BY <1>6, <1>7, <1>8
-----------------------------------------------------------------------------
(* The steps of the scripts.                                               *)

(* A request is put only into a free place, for a script that asks nothing else. *)
LEMMA AskKeeps ==
    ASSUME IInv, NoMisuse, NEW s \in Scripts, NEW k \in Kinds, Ask(s, k)
    PROVE  IInv'
<1>0. /\ chr_client \in Clients /\ chr_client' = chr_client
      /\ asks[s] = None /\ MayAsk(k) /\ ~Overlaps(k)
  BY DEF IInv, OtherTypes, Ask, Running, client, NoMisuse
<1> DEFINE c == chr_client
<1>1. /\ slot' \in [Clients -> [Kinds -> SUBSET Scripts]]
      /\ \A d \in Clients, j \in Kinds :
             slot'[d][j] = IF d = c /\ j = k
                           THEN (IF k = "gump" THEN slot[c][k] \cup {s} ELSE {s})
                           ELSE slot[d][j]
  BY <1>0 DEF IInv, RequestInv, RequestTypes, Ask
<1>2. /\ asks' \in [Scripts -> Kinds \cup {None}]
      /\ \A t \in Scripts : asks'[t] = IF t = s THEN k ELSE asks[t]
  BY DEF IInv, RequestInv, RequestTypes, Ask
<1>3. blocked' = blocked \cup {s} /\ blocked' \subseteq Scripts
  BY DEF IInv, RequestInv, RequestTypes, Ask
<1>4. k # "gump" => slot[c][k] = {}
  BY <1>0 DEF MayAsk, Overlaps, target_cursor_busy, has_active_prompt, Kinds, Prompts
<1>5. k \in Prompts => \A j \in Prompts : slot[c][j] = {}
  BY <1>0 DEF MayAsk, has_active_prompt, Prompts
<1>6. OneEach'
  BY <1>1 DEF IInv, RequestInv, OneEach
<1>7. OnePrompt'
  BY <1>0, <1>1, <1>5 DEF IInv, RequestInv, OnePrompt, Prompts, Kinds
<1>8. SleepersAsk'
  BY <1>2, <1>3, RequestAssumption DEF IInv, RequestInv, SleepersAsk
<1>9. Registered'
  <2>1. ASSUME NEW t \in Scripts, NEW d \in Clients, NEW j \in Kinds
        PROVE  t \in slot'[d][j] <=> asks'[t] = j /\ chr_client' = d
    <3>1. CASE d = c /\ j = k
      BY <3>1, <1>0, <1>1, <1>2, <1>4, RequestAssumption DEF IInv, Registered
    <3>2. CASE ~(d = c /\ j = k)
      BY <3>2, <1>0, <1>1, <1>2, RequestAssumption DEF IInv, Registered
    <3> QED
      BY <3>1, <3>2
  <2> QED
    BY <2>1, <1>0, RequestAssumption DEF Registered
<1>10. shown' \in [Clients -> SUBSET (Kinds \X (Scripts \cup {None}))]
  BY DEF Ask, Show, IInv, OtherTypes
<1>11. OtherTypes' /\ PointersAgree' /\ StaysLoggedIn' /\ CleansItsOwn'
  BY <1>10 DEF IInv, OtherTypes, PointersAgree, StaysLoggedIn, CleansItsOwn, Ask, client
<1>12. DyingRun'
  BY <1>3 DEF IInv, DyingRun, Ask, Running
<1> QED
  BY <1>1, <1>2, <1>3, <1>6, <1>7, <1>8, <1>9, <1>11, <1>12 DEF IInv, RequestInv, RequestTypes

LEMMA CloseGumpKeeps ==
    ASSUME IInv, NEW s \in Scripts, CloseGump(s)
    PROVE  IInv'
<1>1. chr_client \in Clients /\ {s} \in SUBSET slot[chr_client]["gump"]
  BY DEF CloseGump, IsActive, IInv, OtherTypes
<1>2. RequestInv' /\ Registered'
  BY <1>1, WithdrawKeeps DEF CloseGump, IInv, client, Kinds
<1> QED
  BY <1>2 DEF CloseGump, Wake, IInv, OtherTypes, PointersAgree, StaysLoggedIn, DyingRun, CleansItsOwn,
              chr, client

LEMMA KillKeeps ==
    ASSUME IInv, NEW s \in Scripts, Kill(s)
    PROVE  IInv'
<1>1. RequestInv'
  BY DEF Kill, IInv, RequestInv, RequestTypes, OneEach, OnePrompt, SleepersAsk
<1> QED
  BY <1>1 DEF Kill, IInv, OtherTypes, PointersAgree, StaysLoggedIn, Registered, DyingRun, CleansItsOwn,
              chr, client

(* A script that is deleted takes its request, and no other, with it. *)
LEMMA DestroyKeeps ==
    ASSUME IInv, NEW s \in Scripts, Destroy(s)
    PROVE  IInv'
<1>0. s \notin blocked
  BY DEF Destroy, IInv, DyingRun
<1>1. chr_client \in Clients /\ asks[s] \in Kinds /\ s \in slot[chr_client][asks[s]]
  BY DEF Destroy, IInv, RequestInv, RequestTypes, OtherTypes, Registered
<1>2. slot' = [slot EXCEPT ![chr_client][asks[s]] = @ \ {s}]
  <2>1. asks[s] # "gump" => slot[chr_client][asks[s]] = {s}
    BY <1>1 DEF IInv, RequestInv, OneEach
  <2> QED
    BY <1>1, <2>1, RequestAssumption DEF Destroy
<1>3. Wake({s})
  <2>1. asks' = [t \in Scripts |-> IF t \in {s} THEN None ELSE asks[t]]
    BY DEF Destroy, IInv, RequestInv, RequestTypes
  <2> QED
    BY <2>1, <1>0 DEF Destroy, Wake
<1>4. RequestInv /\ Registered /\ {s} \in SUBSET slot[chr_client][asks[s]]
  BY <1>1 DEF IInv
<1>5. chr_client' = chr_client
  BY DEF Destroy, client
<1>6. RequestInv' /\ Registered'
  BY <1>1, <1>2, <1>3, <1>4, <1>5, WithdrawKeeps
<1> QED
  BY <1>6 DEF Destroy, IInv, OtherTypes, PointersAgree, StaysLoggedIn, DyingRun, CleansItsOwn,
              chr, client

LEMMA CoreCursorKeeps ==
    ASSUME IInv, CoreCursor
    PROVE  IInv'
<1>1. shown' \in [Clients -> SUBSET (Kinds \X (Scripts \cup {None}))]
  <2>1. "target" \in Kinds
    BY DEF Kinds
  <2>2. << "target", None >> \in Kinds \X (Scripts \cup {None})
    BY <2>1
  <2>3. shown' = shown \/ shown' = [shown EXCEPT ![chr_client] = @ \cup {<< "target", None >>}]
    BY DEF CoreCursor, Show
  <2> QED
    BY <2>2, <2>3 DEF IInv, OtherTypes
<1>2. RequestInv' /\ Registered'
  BY DEF CoreCursor, requests, client, IInv, RequestInv, RequestTypes, OneEach, OnePrompt,
         SleepersAsk, Registered
<1> QED
  BY <1>1, <1>2 DEF CoreCursor, IInv, OtherTypes, PointersAgree, StaysLoggedIn, DyingRun, CleansItsOwn,
                    requests, client

-----------------------------------------------------------------------------
(* The answers.                                                            *)

(* What an answer leaves alone. *)
LEMMA TakesKeeps ==
    ASSUME IInv, NEW c \in Clients, NEW r, Takes(c, r), RequestInv', Registered', blocked' \subseteq blocked,
           tcursor2' \in {None, "script", "core"}, menu' \in Scripts \cup {None}
    PROVE  IInv'
BY DEF Takes, IInv, OtherTypes, PointersAgree, StaysLoggedIn, DyingRun, CleansItsOwn, client

(* An answer wakes those whose requests it takes away, or nobody. *)
LEMMA AnsweredKeeps ==
    ASSUME IInv, NEW c \in Clients, NEW k \in Kinds, Answered(c, k), chr_client' = chr_client
    PROVE  RequestInv' /\ Registered' /\ blocked' \subseteq blocked
<1>1. slot' = [slot EXCEPT ![c][k] = @ \ slot[c][k]]
  BY DEF Answered
<1>2. slot[c][k] \in SUBSET slot[c][k] /\ RequestInv /\ Registered
  BY DEF IInv
<1>3. Wake(slot[c][k]) /\ blocked' \subseteq blocked
  BY DEF Answered, Wake
<1> QED
  BY <1>1, <1>2, <1>3, WithdrawKeeps

LEMMA UnansweredKeeps ==
    ASSUME IInv, UNCHANGED requests, chr_client' = chr_client
    PROVE  RequestInv' /\ Registered' /\ blocked' \subseteq blocked
BY DEF IInv, RequestInv, RequestTypes, OneEach, OnePrompt, SleepersAsk, Registered, requests

LEMMA AnswerKeeps ==
    ASSUME IInv, NEW c \in Clients, NEW s \in Scripts \cup {None}, Answer(c, s)
    PROVE  IInv'
<1>1. CASE AnswerTarget(c, s)
  <2>1. Takes(c, << "target", s >>) /\ chr_client' = chr_client
    BY <1>1 DEF AnswerTarget, Takes, client
  <2>2. RequestInv' /\ Registered' /\ blocked' \subseteq blocked
    BY <1>1, <2>1, AnsweredKeeps, UnansweredKeeps DEF AnswerTarget, Kinds
  <2>3. tcursor2' \in {None, "script", "core"} /\ menu' \in Scripts \cup {None}
    BY <1>1 DEF AnswerTarget, IInv, OtherTypes
  <2> QED
    BY <2>1, <2>2, <2>3, TakesKeeps
<1>2. CASE AnswerMenu(c, s)
  <2>1. Takes(c, << "menu", s >>) /\ chr_client' = chr_client
    BY <1>2 DEF AnswerMenu, Takes, client
  <2>2. RequestInv' /\ Registered' /\ blocked' \subseteq blocked
    BY <1>2, <2>1, AnsweredKeeps, UnansweredKeeps DEF AnswerMenu, Kinds
  <2>3. tcursor2' \in {None, "script", "core"} /\ menu' \in Scripts \cup {None}
    BY <1>2 DEF AnswerMenu, IInv, OtherTypes
  <2> QED
    BY <2>1, <2>2, <2>3, TakesKeeps
<1>3. CASE AnswerGump(c, s)
  <2>1. Takes(c, << "gump", s >>) /\ chr_client' = chr_client
    BY <1>3 DEF AnswerGump, Takes, client
  <2> DEFINE S == slot[c]["gump"] \cap {s}
  <2>2. Wake(S) /\ slot' = [slot EXCEPT ![c]["gump"] = @ \ S]
    <3>1. slot[c]["gump"] \ {s} = slot[c]["gump"] \ S
      OBVIOUS
    <3> QED
      BY <1>3, <3>1 DEF AnswerGump
  <2>3. RequestInv /\ Registered /\ S \in SUBSET slot[c]["gump"] /\ "gump" \in Kinds
    BY DEF IInv, Kinds
  <2>4. RequestInv' /\ Registered'
    BY <2>1, <2>2, <2>3, WithdrawKeeps
  <2>5. blocked' \subseteq blocked
    BY <2>2 DEF Wake
  <2>6. tcursor2' \in {None, "script", "core"} /\ menu' \in Scripts \cup {None}
    BY <1>3 DEF AnswerGump, IInv, OtherTypes, chr
  <2> QED
    BY <2>1, <2>4, <2>5, <2>6, TakesKeeps
<1>4. ASSUME NEW k \in Kinds, AnswerOther(c, k, s) PROVE IInv'
  <2>1. Takes(c, << k, s >>) /\ chr_client' = chr_client
    BY <1>4 DEF AnswerOther, Takes, client
  <2>2. RequestInv' /\ Registered' /\ blocked' \subseteq blocked
    BY <1>4, <2>1, AnsweredKeeps DEF AnswerOther
  <2>3. tcursor2' \in {None, "script", "core"} /\ menu' \in Scripts \cup {None}
    BY <1>4 DEF AnswerOther, IInv, OtherTypes, chr
  <2> QED
    BY <2>1, <2>2, <2>3, TakesKeeps
<1> QED
  BY <1>1, <1>2, <1>3, <1>4 DEF Answer

-----------------------------------------------------------------------------
(* The connections.                                                        *)

LEMMA ConnectKeeps ==
    ASSUME IInv, NoMisuse, NEW c \in Clients, char_select(c)
    PROVE  IInv'
<1>0. /\ io[c] = "off" /\ chr_client' = c /\ active' = TRUE /\ io' = [io EXCEPT ![c] = "game"]
      /\ UNCHANGED << dying, tcursor2, menu, shown >>
  BY DEF char_select, chr
<1>1. CASE chr_client # None
  <2>0. chr_client \in Clients
    BY <1>1 DEF IInv, OtherTypes
  <2>1. /\ clear(chr_client) /\ has_chr' = (has_chr \ {chr_client}) \cup {c}
        /\ connected' = (connected \ {chr_client}) \cup {c} /\ io[chr_client] # "cleanup"
    BY <1>1 DEF char_select, TakesOver, NoMisuse
  <2>2. /\ RequestInv'
        /\ \A s \in Scripts, d \in Clients, k \in Kinds : s \notin slot'[d][k]
        /\ \A s \in Scripts : asks'[s] = None
    BY <2>0, <2>1, ClearKeeps DEF IInv, OtherTypes
  <2>3. Registered'
    BY <2>2, RequestAssumption DEF Registered
  <2>4. PointersAgree' /\ CleansItsOwn'
    BY <1>0, <2>0, <2>1 DEF IInv, OtherTypes, PointersAgree, CleansItsOwn
  <2>5. OtherTypes' /\ StaysLoggedIn' /\ DyingRun'
    BY <1>0, <2>0, <2>1 DEF IInv, OtherTypes, StaysLoggedIn, DyingRun, clear, Wake
  <2> QED
    BY <2>2, <2>3, <2>4, <2>5 DEF IInv
<1>2. CASE chr_client = None
  <2>1. UNCHANGED requests /\ connected' = connected \cup {c} /\ has_chr' = has_chr \cup {c}
    BY <1>2 DEF char_select
  <2>2. RequestInv' /\ Registered'
    BY <1>0, <1>2, <2>1, RequestAssumption
       DEF requests, IInv, RequestInv, RequestTypes, OneEach, OnePrompt, SleepersAsk, Registered
  <2>3. PointersAgree' /\ CleansItsOwn'
    BY <1>0, <1>2, <2>1, RequestAssumption DEF IInv, OtherTypes, PointersAgree, CleansItsOwn
  <2>4. OtherTypes' /\ StaysLoggedIn' /\ DyingRun'
    BY <1>0, <2>1 DEF IInv, OtherTypes, StaysLoggedIn, DyingRun, requests
  <2> QED
    BY <2>2, <2>3, <2>4 DEF IInv
<1> QED
  BY <1>1, <1>2

LEMMA CleanupKeeps ==
    ASSUME IInv, NEW c \in Clients, Cleanup(c)
    PROVE  IInv'
<1>1. chr_client = c /\ chr_client' = chr_client
  BY DEF Cleanup, IInv, CleansItsOwn, PointersAgree
<1>2. /\ RequestInv'
      /\ \A s \in Scripts, d \in Clients, k \in Kinds : s \notin slot'[d][k]
      /\ \A s \in Scripts : asks'[s] = None
  BY <1>1, ClearKeeps DEF Cleanup, IInv, OtherTypes
<1>3. Registered'
  BY <1>2, RequestAssumption DEF Registered
<1>4. blocked' = {}
  BY <1>2 DEF RequestInv, RequestTypes, SleepersAsk
<1>5. OtherTypes' /\ PointersAgree' /\ StaysLoggedIn' /\ CleansItsOwn'
  BY RequestAssumption DEF Cleanup, Goto, IInv, OtherTypes, PointersAgree, StaysLoggedIn, CleansItsOwn
<1> QED
  BY <1>2, <1>3, <1>4, <1>5 DEF IInv, DyingRun

LEMMA DeleteKeeps ==
    ASSUME IInv, NEW c \in Clients, Delete(c)
    PROVE  IInv'
<1>0. /\ io[c] = "delete" /\ io' = [io EXCEPT ![c] = "gone"] /\ has_chr' = has_chr \ {c}
      /\ clear(c) /\ connected' = connected \ {c} /\ UNCHANGED << menu, shown >>
  BY DEF Delete, Goto
<1>1. CASE chr_client = c
  <2>1. active /\ c \in has_chr
    BY <1>1, RequestAssumption DEF IInv, StaysLoggedIn, PointersAgree
  <2>2. chr_client' = None /\ active' = FALSE /\ tcursor2' = None /\ dying' = dying \cup Skill
    BY <1>1, <2>1 DEF Delete
  <2>3. /\ RequestInv'
        /\ \A s \in Scripts, d \in Clients, k \in Kinds : s \notin slot'[d][k]
        /\ \A s \in Scripts : asks'[s] = None
    BY <1>0, <1>1, ClearKeeps DEF IInv, OtherTypes
  <2>4. Registered'
    BY <2>2, <2>3, RequestAssumption DEF Registered
  <2>5. blocked' = {}
    BY <2>3 DEF RequestInv, RequestTypes, SleepersAsk
  <2>6. PointersAgree'
    BY <1>0, <1>1, <2>2, RequestAssumption DEF IInv, PointersAgree
  <2>7. OtherTypes' /\ StaysLoggedIn' /\ CleansItsOwn'
    BY <1>0, <2>2, RequestAssumption DEF IInv, OtherTypes, StaysLoggedIn, CleansItsOwn
  <2> QED
    BY <2>3, <2>4, <2>5, <2>6, <2>7 DEF IInv, DyingRun
<1>2. CASE chr_client # c
  <2>1. UNCHANGED << chr_client, active, tcursor2, dying >> /\ c \notin has_chr
    BY <1>2 DEF Delete, IInv, PointersAgree
  <2>2. /\ RequestInv'
        /\ \A s \in Scripts, d \in Clients, k \in Kinds :
               s \in slot'[d][k] <=> asks'[s] = k /\ chr_client = d
        /\ chr_client = None => \A s \in Scripts : asks'[s] = None
    BY <1>0, <1>2, ClearKeeps DEF IInv, OtherTypes
  <2>3. Registered'
    BY <2>1, <2>2 DEF Registered
  <2>4. blocked' \subseteq blocked
    BY <1>0 DEF clear, Wake
  <2>5. OtherTypes' /\ PointersAgree' /\ StaysLoggedIn' /\ CleansItsOwn' /\ DyingRun'
    BY <1>0, <2>1, <2>4 DEF IInv, OtherTypes, PointersAgree, StaysLoggedIn, CleansItsOwn, DyingRun
  <2> QED
    BY <2>2, <2>3, <2>5 DEF IInv
<1> QED
  BY <1>1, <1>2

(* The steps of a client's thread that touch no request. *)
LEMMA GoOnKeeps ==
    ASSUME IInv, NEW c \in Clients, Break(c) \/ Close(c) \/ Test(c) \/ Logoff(c)
    PROVE  IInv'
<1>1. UNCHANGED << requests, dying, chr, chr_client, has_chr, active >>
  BY DEF Break, Close, Test, Logoff
<1>2. RequestInv' /\ Registered' /\ DyingRun'
  BY <1>1 DEF requests, IInv, RequestInv, RequestTypes, OneEach, OnePrompt, SleepersAsk, Registered,
              DyingRun
<1>3. PointersAgree' /\ StaysLoggedIn'
  BY <1>1 DEF IInv, PointersAgree, StaysLoggedIn
<1>4. CleansItsOwn'
  BY <1>1 DEF IInv, OtherTypes, CleansItsOwn, Break, Close, Test, Logoff, Goto
<1>5. connected' \subseteq Clients
  BY DEF IInv, OtherTypes, Break, Close, Test, Logoff
<1>6. io' \in [Clients -> {"off", "game", "closed", "cleanup", "linger", "delete", "gone"}]
  BY DEF IInv, OtherTypes, Break, Close, Test, Logoff, Goto
<1>7. shown' \in [Clients -> SUBSET (Kinds \X (Scripts \cup {None}))]
  BY DEF IInv, OtherTypes, Break, Close, Test, Logoff
<1> QED
  BY <1>1, <1>2, <1>3, <1>4, <1>5, <1>6, <1>7 DEF IInv, OtherTypes, chr

-----------------------------------------------------------------------------
(* The theorems.                                                           *)

LEMMA InitInv == Init => IInv
<1> SUFFICES ASSUME Init PROVE IInv
  OBVIOUS
<1>1. RequestInv /\ Registered
  BY RequestAssumption
     DEF Init, RequestInv, RequestTypes, OneEach, OnePrompt, SleepersAsk, Registered, Kinds, Prompts
<1>2. OtherTypes /\ PointersAgree /\ StaysLoggedIn /\ DyingRun /\ CleansItsOwn
  BY RequestAssumption DEF Init, OtherTypes, PointersAgree, StaysLoggedIn, DyingRun, CleansItsOwn
<1> QED
  BY <1>1, <1>2 DEF IInv

LEMMA NextInv == NoMisuse /\ IInv /\ [Next]_vars => IInv'
<1> SUFFICES ASSUME NoMisuse, IInv, [Next]_vars PROVE IInv'
  OBVIOUS
<1>1. ASSUME NEW s \in Scripts, NEW k \in Asked, Ask(s, k) PROVE IInv'
  <2>1. k \in Kinds
    BY <1>1, RequestAssumption
  <2> QED
    BY <1>1, <2>1, AskKeeps
<1>2. ASSUME NEW s \in Scripts, CloseGump(s) \/ Kill(s) \/ Destroy(s) PROVE IInv'
  BY <1>2, CloseGumpKeeps, KillKeeps, DestroyKeeps
<1>3. CASE CoreCursor
  BY <1>3, CoreCursorKeeps
<1>4. ASSUME NEW c \in Clients, NEW s \in Scripts \cup {None}, Answer(c, s) PROVE IInv'
  BY <1>4, AnswerKeeps
<1>5. ASSUME NEW c \in Clients, char_select(c) \/ Break(c) \/ Leaves(c) PROVE IInv'
  BY <1>5, ConnectKeeps, GoOnKeeps, CleanupKeeps, DeleteKeeps DEF Leaves
<1>6. CASE UNCHANGED vars
  <2>1. RequestInv' /\ Registered'
    BY <1>6 DEF vars, requests, client, IInv, RequestInv, RequestTypes, OneEach, OnePrompt,
                SleepersAsk, Registered
  <2> QED
    BY <1>6, <2>1 DEF vars, requests, chr, client, IInv, OtherTypes, PointersAgree, StaysLoggedIn,
                      DyingRun, CleansItsOwn
<1> QED
  BY <1>1, <1>2, <1>3, <1>4, <1>5, <1>6 DEF Next

(* The records of requests, the pointers between character and client, the
   killed scripts and the threads' places agree, through any order of requests,
   answers, kills, disconnects and takeovers. *)
THEOREM Invariant ==
    ASSUME NoMisuse
    PROVE  Spec => []IInv
<1>1. Init => IInv
  BY InitInv
<1>2. IInv /\ [Next]_vars => IInv'
  BY NextInv
<1> QED
  BY <1>1, <1>2, PTL DEF Spec

(* The variables keep their types, and a client has one request of a kind. *)
THEOREM RequestTypeCorrect ==
    ASSUME NoMisuse
    PROVE  Spec => []TypeOK
<1>1. IInv => TypeOK
  BY TypesHold
<1> QED
  BY <1>1, Invariant, PTL

(* Both records of every request agree, character and client point at each
   other, and who sleeps has a request. *)
THEOREM RequestsAgree ==
    ASSUME NoMisuse
    PROVE  Spec => []RequestsMatch
<1>1. IInv => RequestsMatch
  BY DEF IInv, RequestInv, RequestsMatch
<1> QED
  BY <1>1, Invariant, PTL

(* A character that somebody plays is logged in. *)
THEOREM LoggedInWhilePlayed ==
    ASSUME NoMisuse
    PROVE  Spec => []StaysLoggedIn
<1>1. IInv => StaysLoggedIn
  BY DEF IInv
<1> QED
  BY <1>1, Invariant, PTL
-----------------------------------------------------------------------------
(* Cursors.                                                                *)

(* Only the client of a connection whose loop goes on has anything on its screen,
   and a connection that has not come yet has no character. *)
ShownWhileOn ==
    /\ \A c \in Clients : io[c] # "game" => shown[c] = {}
    /\ \A c \in Clients : io[c] = "off" => c # chr_client

(* A client has one cursor at most; tcursor2 says whether it is a script's, and
   a script that waits for it is the one that sent it. *)
OneCursor ==
    chr_client # None =>
        \A s \in Scripts \cup {None} :
            << "target", s >> \in shown[chr_client] =>
                /\ tcursor2 = IF s = None THEN "core" ELSE "script"
                /\ slot[chr_client]["target"] \subseteq {s}
                /\ \A t \in Scripts \cup {None} :
                       << "target", t >> \in shown[chr_client] => t = s

CInv == ShownWhileOn /\ OneCursor /\ CursorAgrees

(* What a request or a cursor of the core puts on the screen. *)
LEMMA ShowShows ==
    ASSUME IInv, ShownWhileOn, chr_client \in Clients, NEW r \in Kinds \X (Scripts \cup {None}),
           Show(chr_client, r), UNCHANGED << chr_client, io >>
    PROVE  /\ ShownWhileOn'
           /\ \A d \in Clients : shown'[d] = IF d = chr_client /\ io[d] = "game"
                                           THEN shown[d] \cup {r} ELSE shown[d]
BY DEF IInv, OtherTypes, ShownWhileOn, Show

(* A cursor goes up only where none is. *)
LEMMA NewCursor ==
    ASSUME IInv, CInv, chr_client \in connected, chr_client' = chr_client, io' = io,
           ~target_cursor_busy, NEW s \in Scripts \cup {None},
           shown'[chr_client] = IF io[chr_client] = "game"
                                THEN shown[chr_client] \cup {<< "target", s >>} ELSE {},
           tcursor2' = IF s = None THEN "core" ELSE "script",
           slot'[chr_client]["target"] \subseteq {s},
           s = None => slot'[chr_client]["target"] = {}
    PROVE  OneCursor' /\ CursorAgrees'
<1>1. \A t \in Scripts \cup {None} : << "target", t >> \notin shown[chr_client]
  BY RequestAssumption
     DEF CInv, OneCursor, target_cursor_busy, IInv, OtherTypes, Kinds, Prompts
<1>2. \A t \in Scripts \cup {None} :
         << "target", t >> \in shown'[chr_client] <=> io[chr_client] = "game" /\ t = s
  <2>1. ASSUME io[chr_client] = "game", NEW t \in Scripts \cup {None}
        PROVE  << "target", t >> \in shown'[chr_client] <=> t = s
    <3>1. shown'[chr_client] = shown[chr_client] \cup {<< "target", s >>}
      BY <2>1
    <3>2. << "target", t >> = << "target", s >> <=> t = s
      OBVIOUS
    <3> QED
      BY <1>1, <3>1, <3>2
  <2>2. ASSUME io[chr_client] # "game" PROVE shown'[chr_client] = {}
    BY <2>2
  <2> QED
    BY <2>1, <2>2
<1>3. chr_client # None /\ tcursor2' # None
  BY RequestAssumption DEF IInv, OtherTypes, Kinds
<1>4. OneCursor'
  BY <1>2 DEF OneCursor
<1>5. CursorAgrees'
  BY <1>2, <1>3, RequestAssumption DEF CursorAgrees
<1> QED
  BY <1>4, <1>5

(* Steps that put nothing on a screen, leave the cursor up and take at most
   scripts away from it. *)
LEMMA CursorStays ==
    ASSUME IInv, CInv, chr_client' = chr_client, tcursor2' = tcursor2,
           chr_client # None => /\ slot'[chr_client]["target"] \subseteq slot[chr_client]["target"]
                                /\ io'[chr_client] = "game" => io[chr_client] = "game"
                                /\ io'[chr_client] = "game" =>
                                      \A s \in Scripts \cup {None} :
                                          << "target", s >> \in shown'[chr_client]
                                              <=> << "target", s >> \in shown[chr_client]
                                /\ io'[chr_client] # "game" => shown'[chr_client] = {}
    PROVE  OneCursor' /\ CursorAgrees'
<1>1. OneCursor'
  BY DEF CInv, OneCursor
<1>2. CursorAgrees'
  BY DEF CInv, CursorAgrees
<1> QED
  BY <1>1, <1>2

(* Nothing is left of a cursor. *)
LEMMA CursorGone ==
    ASSUME tcursor2' = None,
           chr_client' # None => /\ slot'[chr_client']["target"] = {}
                                 /\ \A s \in Scripts \cup {None} :
                                        << "target", s >> \notin shown'[chr_client']
    PROVE  OneCursor' /\ CursorAgrees'
BY DEF OneCursor, CursorAgrees

LEMMA AskCursor ==
    ASSUME IInv, CInv, NEW s \in Scripts, NEW k \in Kinds, Ask(s, k)
    PROVE  CInv'
<1>0. chr_client \in Clients /\ UNCHANGED << chr_client, io, connected >>
  BY DEF Ask, client, IInv, OtherTypes
<1>1. << k, s >> \in Kinds \X (Scripts \cup {None}) /\ Show(chr_client, << k, s >>)
  BY DEF Ask
<1>2. /\ ShownWhileOn'
      /\ \A d \in Clients : shown'[d] = IF d = chr_client /\ io[d] = "game"
                                      THEN shown[d] \cup {<< k, s >>} ELSE shown[d]
  BY <1>0, <1>1, ShowShows DEF CInv
<1>3. CASE k = "target"
  <2>1. chr_client \in connected /\ ~target_cursor_busy /\ tcursor2' = "script"
    BY <1>3 DEF Ask, MayAsk, IsActive
  <2>2. shown'[chr_client] = IF io[chr_client] = "game"
                             THEN shown[chr_client] \cup {<< "target", s >>} ELSE {}
    BY <1>0, <1>2, <1>3 DEF CInv, ShownWhileOn
  <2>3. slot'[chr_client]["target"] = {s}
    BY <1>0, <1>3 DEF Ask, IInv, RequestInv, RequestTypes
  <2>4. s # None
    BY RequestAssumption
  <2> QED
    BY <1>0, <1>2, <2>1, <2>2, <2>3, <2>4, NewCursor DEF CInv
<1>4. CASE k # "target"
  <2>0. "target" \in Kinds
    BY DEF Kinds
  <2>1. tcursor2' = tcursor2 /\ slot'[chr_client]["target"] = slot[chr_client]["target"]
    <3>1. slot' = [slot EXCEPT ![chr_client][k] = IF k = "gump" THEN @ \cup {s} ELSE {s}]
      BY DEF Ask
    <3>2. slot[chr_client] \in [Kinds -> SUBSET Scripts] /\ slot \in [Clients -> [Kinds -> SUBSET Scripts]]
      BY <1>0 DEF IInv, RequestInv, RequestTypes
    <3>3. slot'[chr_client]["target"] = slot[chr_client]["target"]
      BY <1>0, <1>4, <2>0, <3>1, <3>2
    <3>4. tcursor2' = tcursor2
      BY <1>4 DEF Ask
    <3> QED
      BY <3>3, <3>4
  <2>2. \A t \in Scripts \cup {None} :
           << "target", t >> \in shown'[chr_client] <=> << "target", t >> \in shown[chr_client]
    <3>1. shown'[chr_client] \in {shown[chr_client], shown[chr_client] \cup {<< k, s >>}}
      BY <1>0, <1>2
    <3>2. \A t \in Scripts \cup {None} : << "target", t >> # << k, s >>
      BY <1>4
    <3> QED
      BY <3>1, <3>2
  <2>3. io[chr_client] # "game" => shown'[chr_client] = {}
    BY <1>0, <1>2 DEF CInv, ShownWhileOn
  <2>4. OneCursor' /\ CursorAgrees'
    BY <1>0, <2>1, <2>2, <2>3, CursorStays
  <2> QED
    BY <1>2, <2>4 DEF CInv
<1> QED
  BY <1>3, <1>4

LEMMA CoreCursorCursor ==
    ASSUME IInv, CInv, CoreCursor
    PROVE  CInv'
<1>0. /\ chr_client \in connected /\ chr_client \in Clients /\ ~target_cursor_busy
      /\ tcursor2' = "core" /\ UNCHANGED << chr_client, io, connected, slot >>
  BY DEF CoreCursor, IsActive, client, requests, IInv, OtherTypes
<1>1. << "target", None >> \in Kinds \X (Scripts \cup {None}) /\ Show(chr_client, << "target", None >>)
  BY DEF CoreCursor, Kinds
<1>2. /\ ShownWhileOn'
      /\ \A d \in Clients : shown'[d] = IF d = chr_client /\ io[d] = "game"
                                      THEN shown[d] \cup {<< "target", None >>} ELSE shown[d]
  BY <1>0, <1>1, ShowShows DEF CInv
<1>3. shown'[chr_client] = IF io[chr_client] = "game"
                           THEN shown[chr_client] \cup {<< "target", None >>} ELSE {}
  BY <1>0, <1>2 DEF CInv, ShownWhileOn
<1>4. slot'[chr_client]["target"] = {}
  BY <1>0 DEF target_cursor_busy
<1>5. OneCursor' /\ CursorAgrees'
  BY <1>0, <1>3, <1>4, NewCursor
<1> QED
  BY <1>2, <1>5 DEF CInv

(* The end of a script leaves its cursor up, and only takes the script away. *)
LEMMA ScriptEndCursor ==
    ASSUME IInv, CInv, NEW s \in Scripts, CloseGump(s) \/ Kill(s) \/ Destroy(s)
    PROVE  CInv'
<1>1. UNCHANGED << chr_client, tcursor2, io, connected, shown >>
  BY DEF CloseGump, Kill, Destroy, chr, client
<1>2. chr_client # None => slot'[chr_client]["target"] \subseteq slot[chr_client]["target"]
  <2>1. CASE CloseGump(s)
    BY <2>1 DEF CloseGump, IInv, RequestInv, RequestTypes, OtherTypes, Kinds
  <2>2. CASE Kill(s)
    BY <2>2 DEF Kill
  <2>3. CASE Destroy(s)
    <3>1. asks[s] \in Kinds /\ "target" \in Kinds
      BY <2>3 DEF Destroy, IInv, RequestInv, RequestTypes, Kinds
    <3> QED
      BY <2>3, <3>1 DEF Destroy, IInv, RequestInv, RequestTypes, OtherTypes
  <2> QED
    BY <2>1, <2>2, <2>3
<1>3. ShownWhileOn'
  BY <1>1 DEF CInv, ShownWhileOn
<1>4. chr_client # None /\ io[chr_client] # "game" => shown[chr_client] = {}
  BY DEF CInv, ShownWhileOn, IInv, OtherTypes
<1> QED
  BY <1>1, <1>2, <1>3, <1>4, CursorStays DEF CInv

(* An answer to another request leaves the cursor alone; an answer to a target
   is the answer to the one cursor there is, and to the script that sent it. *)
LEMMA AnswerCursor ==
    ASSUME IInv, CInv, NEW c \in Clients, NEW s \in Scripts \cup {None}, Answer(c, s)
    PROVE  CInv'
<1>1. ASSUME NEW k \in Kinds, Takes(c, << k, s >>)
      PROVE  /\ c = chr_client /\ c # None /\ io[c] = "game" /\ << k, s >> \in shown[c]
             /\ UNCHANGED << chr_client, io, connected >>
             /\ \A d \in Clients : shown'[d] = IF d = c THEN shown[c] \ {<< k, s >>} ELSE shown[d]
             /\ ShownWhileOn'
  <2>1. c = chr_client /\ c # None /\ io[c] = "game" /\ << k, s >> \in shown[c]
    BY <1>1, RequestAssumption DEF Takes, IInv, PointersAgree
  <2>2. UNCHANGED << chr_client, io, connected >>
    BY <1>1 DEF Takes, client
  <2>3. \A d \in Clients : shown'[d] = IF d = c THEN shown[c] \ {<< k, s >>} ELSE shown[d]
    BY <1>1 DEF Takes, IInv, OtherTypes
  <2>4. ShownWhileOn'
    BY <2>1, <2>2, <2>3 DEF CInv, ShownWhileOn
  <2> QED
    BY <2>1, <2>2, <2>3, <2>4
<1>2. ASSUME NEW k \in Kinds, k # "target", Takes(c, << k, s >>), tcursor2' = tcursor2,
             slot'[c]["target"] \subseteq slot[c]["target"]
      PROVE  CInv'
  <2>1. /\ c = chr_client /\ c # None /\ io[c] = "game" /\ << k, s >> \in shown[c]
        /\ UNCHANGED << chr_client, io, connected >>
        /\ \A d \in Clients : shown'[d] = IF d = c THEN shown[c] \ {<< k, s >>} ELSE shown[d]
        /\ ShownWhileOn'
    BY <1>1, <1>2
  <2>2. \A t \in Scripts \cup {None} :
           << "target", t >> \in shown'[c] <=> << "target", t >> \in shown[c]
    BY <1>2, <2>1
  <2>3. OneCursor' /\ CursorAgrees'
    BY <1>2, <2>1, <2>2, CursorStays
  <2> QED
    BY <2>1, <2>3 DEF CInv
<1>3. CASE AnswerTarget(c, s)
  <2>0. "target" \in Kinds /\ Takes(c, << "target", s >>)
    BY <1>3 DEF AnswerTarget, Kinds
  <2>1. /\ c = chr_client /\ c # None /\ io[c] = "game" /\ << "target", s >> \in shown[c]
        /\ UNCHANGED << chr_client, io, connected >>
        /\ \A d \in Clients : shown'[d] = IF d = c THEN shown[c] \ {<< "target", s >>} ELSE shown[d]
        /\ ShownWhileOn'
    BY <2>0, <1>1
  <2>2. /\ tcursor2 = IF s = None THEN "core" ELSE "script"
        /\ \A t \in Scripts \cup {None} : << "target", t >> \in shown[c] => t = s
    BY <2>1 DEF CInv, OneCursor
  <2>3. slot'[c]["target"] = {}
    <3>1. CASE s = None
      <4>1. slot[c]["target"] = {}
        BY <2>1, <2>2, <3>1 DEF CInv, CursorAgrees
      <4> QED
        BY <1>3, <3>1, <4>1 DEF AnswerTarget, requests
    <3>2. CASE s # None
      BY <1>3, <2>0, <2>2, <3>2 DEF AnswerTarget, Answered, IInv, RequestInv, RequestTypes
    <3> QED
      BY <3>1, <3>2
  <2>4. \A t \in Scripts \cup {None} : << "target", t >> \notin shown'[c]
    BY <2>1, <2>2
  <2>5. tcursor2' = None
    BY <1>3 DEF AnswerTarget
  <2>6. OneCursor' /\ CursorAgrees'
    BY <2>1, <2>3, <2>4, <2>5, CursorGone
  <2> QED
    BY <2>1, <2>6 DEF CInv
<1>4. CASE AnswerMenu(c, s)
  <2>1. slot'[c]["target"] \subseteq slot[c]["target"]
    BY <1>4 DEF AnswerMenu, Answered, requests, IInv, RequestInv, RequestTypes, Kinds
  <2> QED
    BY <1>4, <1>2, <2>1 DEF AnswerMenu, Kinds
<1>5. CASE AnswerGump(c, s)
  <2>1. slot'[c]["target"] \subseteq slot[c]["target"]
    BY <1>5 DEF AnswerGump, IInv, RequestInv, RequestTypes, Kinds
  <2> QED
    BY <1>5, <1>2, <2>1 DEF AnswerGump, Kinds, chr
<1>6. ASSUME NEW k \in Kinds \ {"target", "menu", "gump"}, AnswerOther(c, k, s) PROVE CInv'
  <2>0. "target" \in Kinds
    BY DEF Kinds
  <2>1. slot'[c]["target"] \subseteq slot[c]["target"]
    BY <1>6, <2>0 DEF AnswerOther, Answered, IInv, RequestInv, RequestTypes
  <2> QED
    BY <1>6, <1>2, <2>1 DEF AnswerOther, chr
<1> QED
  BY <1>3, <1>4, <1>5, <1>6 DEF Answer

(* A client comes to a character without a cursor. *)
LEMMA ConnectCursor ==
    ASSUME IInv, CInv, Misuse = {}, NEW c \in Clients, char_select(c)
    PROVE  CInv'
<1>0. /\ io[c] = "off" /\ chr_client' = c /\ io' = [io EXCEPT ![c] = "game"]
      /\ UNCHANGED << tcursor2, shown >> /\ shown[c] = {}
  BY DEF char_select, chr, CInv, ShownWhileOn
<1>1. ShownWhileOn'
  BY <1>0 DEF CInv, ShownWhileOn, IInv, OtherTypes
<1>2. tcursor2' = None
  <2>1. CASE chr_client # None
    BY <1>0, <2>1 DEF char_select, TakesOver
  <2>2. CASE chr_client = None
    BY <1>0, <2>2 DEF CInv, CursorAgrees
  <2> QED
    BY <2>1, <2>2
<1>3. slot'[c]["target"] = {}
  <2>0. "target" \in Kinds /\ chr_client # c /\ slot[c]["target"] = {}
    <3>1. chr_client # c
      BY <1>0 DEF CInv, ShownWhileOn
    <3>2. "target" \in Kinds
      BY DEF Kinds
    <3> QED
      BY <3>1, <3>2 DEF IInv, RequestInv, RequestTypes, Registered
  <2>1. CASE chr_client # None
    BY <2>0, <2>1 DEF char_select, clear, IInv, RequestInv, RequestTypes, OtherTypes
  <2>2. CASE chr_client = None
    BY <2>0, <2>2 DEF char_select, requests
  <2> QED
    BY <2>1, <2>2
<1>4. OneCursor' /\ CursorAgrees'
  BY <1>0, <1>2, <1>3, CursorGone
<1> QED
  BY <1>1, <1>4 DEF CInv

(* The clean-up takes the cursor of its own character away, with its scripts. *)
LEMMA CleanupCursor ==
    ASSUME IInv, CInv, NEW c \in Clients, Cleanup(c)
    PROVE  CInv'
<1>1. /\ chr_client = c /\ c # None /\ io' = [io EXCEPT ![c] = "linger"] /\ io[c] = "cleanup"
      /\ UNCHANGED << chr_client, connected, shown >> /\ tcursor2' = None
  BY RequestAssumption DEF Cleanup, Goto, IInv, CleansItsOwn, PointersAgree
<1>2. slot'[c]["target"] = {} /\ shown'[c] = {}
  BY <1>1 DEF Cleanup, clear, IInv, RequestInv, RequestTypes, Kinds, CInv, ShownWhileOn
<1>3. ShownWhileOn'
  BY <1>1 DEF CInv, ShownWhileOn, IInv, OtherTypes
<1> QED
  BY <1>1, <1>2, <1>3, CursorGone DEF CInv

(* The end of a connection leaves the cursor of another connection's character. *)
LEMMA DeleteCursor ==
    ASSUME IInv, CInv, NEW c \in Clients, Delete(c)
    PROVE  CInv'
<1>1. /\ io[c] = "delete" /\ io' = [io EXCEPT ![c] = "gone"] /\ clear(c)
      /\ UNCHANGED shown
  BY DEF Delete, Goto
<1>2. CASE chr_client = c
  <2>1. chr_client' = None /\ tcursor2' = None
    BY <1>2, RequestAssumption DEF Delete, IInv, StaysLoggedIn, PointersAgree
  <2>2. ShownWhileOn'
    BY <1>1, <2>1, RequestAssumption DEF CInv, ShownWhileOn, IInv, OtherTypes
  <2> QED
    BY <2>1, <2>2, CursorGone DEF CInv
<1>3. CASE chr_client # c
  <2>1. chr_client' = chr_client /\ tcursor2' = tcursor2
    BY <1>3 DEF Delete
  <2>2. ShownWhileOn'
    BY <1>1, <2>1 DEF CInv, ShownWhileOn, IInv, OtherTypes
  <2>3. chr_client # None => /\ slot'[chr_client] = slot[chr_client]
                             /\ io'[chr_client] = io[chr_client]
                             /\ io[chr_client] # "game" => shown[chr_client] = {}
    BY <1>1, <1>3 DEF clear, IInv, RequestInv, RequestTypes, OtherTypes, CInv, ShownWhileOn
  <2> QED
    BY <1>1, <2>1, <2>2, <2>3, CursorStays DEF CInv
<1> QED
  BY <1>2, <1>3

LEMMA GoOnCursor ==
    ASSUME IInv, CInv, NEW c \in Clients, Break(c) \/ Close(c) \/ Test(c) \/ Logoff(c)
    PROVE  CInv'
<1>1. UNCHANGED << slot, chr_client, tcursor2 >>
  BY DEF Break, Close, Test, Logoff, requests, chr
<1>2. ShownWhileOn'
  <2>1. CASE Break(c)
    BY <1>1, <2>1 DEF Break, CInv, ShownWhileOn
  <2>2. CASE Close(c)
    BY <1>1, <2>2 DEF Close, Goto, CInv, ShownWhileOn, IInv, OtherTypes
  <2>3. CASE Test(c)
    BY <1>1, <2>3 DEF Test, Goto, CInv, ShownWhileOn, IInv, OtherTypes
  <2>4. CASE Logoff(c)
    BY <1>1, <2>4 DEF Logoff, Goto, CInv, ShownWhileOn, IInv, OtherTypes
  <2> QED
    BY <2>1, <2>2, <2>3, <2>4
<1>3. ASSUME chr_client # None
      PROVE  /\ io'[chr_client] = "game" =>
                    io[chr_client] = "game" /\ shown'[chr_client] = shown[chr_client]
             /\ io'[chr_client] # "game" => shown'[chr_client] = {}
  <2>1. chr_client \in Clients
    BY <1>3 DEF IInv, OtherTypes
  <2>2. io'[chr_client] # "game" => shown'[chr_client] = {}
    BY <1>1, <1>2, <2>1 DEF ShownWhileOn
  <2>3. io'[chr_client] = "game" =>
            io[chr_client] = "game" /\ shown'[chr_client] = shown[chr_client]
    BY <2>1 DEF Break, Close, Test, Logoff, Goto, IInv, OtherTypes
  <2> QED
    BY <2>2, <2>3
<1> QED
  BY <1>1, <1>2, <1>3, CursorStays DEF CInv

LEMMA InitCursor == Init => CInv
BY RequestAssumption DEF Init, CInv, ShownWhileOn, OneCursor, CursorAgrees

LEMMA NextCursor == Misuse = {} /\ IInv /\ CInv /\ [Next]_vars => CInv'
<1> SUFFICES ASSUME Misuse = {}, IInv, CInv, [Next]_vars PROVE CInv'
  OBVIOUS
<1>1. ASSUME NEW s \in Scripts, NEW k \in Asked, Ask(s, k) PROVE CInv'
  <2>1. k \in Kinds
    BY <1>1, RequestAssumption
  <2> QED
    BY <1>1, <2>1, AskCursor
<1>2. ASSUME NEW s \in Scripts, CloseGump(s) \/ Kill(s) \/ Destroy(s) PROVE CInv'
  BY <1>2, ScriptEndCursor
<1>3. CASE CoreCursor
  BY <1>3, CoreCursorCursor
<1>4. ASSUME NEW c \in Clients, NEW s \in Scripts \cup {None}, Answer(c, s) PROVE CInv'
  BY <1>4, AnswerCursor
<1>5. ASSUME NEW c \in Clients, char_select(c) \/ Break(c) \/ Leaves(c) PROVE CInv'
  BY <1>5, ConnectCursor, GoOnCursor, CleanupCursor, DeleteCursor DEF Leaves
<1>6. CASE UNCHANGED vars
  BY <1>6 DEF vars, requests, chr, client, CInv, ShownWhileOn, OneCursor, CursorAgrees
<1> QED
  BY <1>1, <1>2, <1>3, <1>4, <1>5, <1>6 DEF Next

(* A waiting script's cursor is up, and a cursor that is up can be answered,
   when no connection takes a character over under its cursor. *)
THEOREM CursorsAgree ==
    ASSUME Misuse = {}
    PROVE  Spec => []CursorAgrees
<1>0. NoMisuse
  BY DEF NoMisuse
<1>1. IInv /\ CInv /\ [Next]_vars => CInv'
  BY NextCursor
<1>2. CInv => CursorAgrees
  BY DEF CInv
<1> QED
  BY <1>0, <1>1, <1>2, InitCursor, Invariant, PTL DEF Spec

(* The answer to a target or to a gump wakes the script that asked, if it still
   waits for one, and no other. *)
THEOREM AnswersReachAsker ==
    ASSUME Misuse = {}
    PROVE  Spec => AnswersAsker
<1>0. NoMisuse
  BY DEF NoMisuse
<1>1. IInv /\ CInv /\ [Next]_vars => CInv'
  BY NextCursor
<1> DEFINE A == \A c \in Clients, k \in {"target", "gump"}, s \in Scripts \cup {None} :
                   << k, s >> \in shown[c] \ shown'[c] /\ io'[c] = "game" =>
                       /\ blocked \ blocked' \subseteq {s}
                       /\ s \in Scripts /\ asks[s] = k => s \notin blocked'
<1>2. IInv /\ CInv /\ [Next]_vars => [A]_vars
  <2> SUFFICES ASSUME IInv, CInv, Next,
                      NEW c \in Clients, NEW k \in {"target", "gump"}, NEW s \in Scripts \cup {None},
                      << k, s >> \in shown[c] \ shown'[c], io'[c] = "game"
               PROVE  /\ blocked \ blocked' \subseteq {s}
                      /\ s \in Scripts /\ asks[s] = k => s \notin blocked'
    OBVIOUS
  <2>1. PICK d \in Clients, t \in Scripts \cup {None} : Answer(d, t)
    <3>1. ASSUME NEW r \in Scripts, NEW j \in Kinds, Ask(r, j) PROVE FALSE
      BY <3>1 DEF Ask, Show, IInv, OtherTypes
    <3>2. ASSUME NEW r \in Scripts, CloseGump(r) \/ Kill(r) \/ Destroy(r) PROVE FALSE
      BY <3>2 DEF CloseGump, Kill, Destroy
    <3>3. ASSUME CoreCursor PROVE FALSE
      BY <3>3 DEF CoreCursor, Show, IInv, OtherTypes
    <3>4. ASSUME NEW d \in Clients, char_select(d) \/ Break(d) \/ Leaves(d) PROVE FALSE
      BY <3>4 DEF char_select, Break, Leaves, Close, Test, Cleanup, Logoff, Delete, Goto, IInv, OtherTypes
    <3> QED
      BY <3>1, <3>2, <3>3, <3>4, RequestAssumption DEF Next
  <2>2. ASSUME NEW j \in Kinds, Takes(d, << j, t >>) PROVE d = c /\ j = k /\ t = s
    BY <2>2 DEF Takes, IInv, OtherTypes
  <2>3. CASE AnswerTarget(d, t)
    <3>1. d = c /\ k = "target" /\ t = s
      BY <2>2, <2>3 DEF AnswerTarget, Kinds
    <3>2. c = chr_client /\ c # None
      BY <2>3, <3>1, RequestAssumption DEF AnswerTarget, Takes, IInv, PointersAgree
    <3>3. /\ slot[c]["target"] \subseteq {s}
          /\ tcursor2 = IF s = None THEN "core" ELSE "script"
      BY <3>1, <3>2 DEF CInv, OneCursor
    <3>4. s \in Scripts /\ asks[s] = k => s \in slot[c]["target"]
      BY <3>1, <3>2 DEF IInv, Registered, Kinds
    <3> QED
      BY <2>3, <3>1, <3>3, <3>4, RequestAssumption DEF AnswerTarget, Answered, Wake, requests
  <2>4. CASE AnswerMenu(d, t)
    BY <2>2, <2>4 DEF AnswerMenu, Kinds
  <2>5. CASE AnswerGump(d, t)
    <3>1. d = c /\ t = s /\ k = "gump"
      BY <2>2, <2>5 DEF AnswerGump, Kinds
    <3>2. c = chr_client
      BY <2>5, <3>1 DEF AnswerGump, Takes, IInv, PointersAgree
    <3>3. s \in Scripts /\ asks[s] = k => s \in slot[c]["gump"]
      BY <3>1, <3>2 DEF IInv, Registered, Kinds
    <3> QED
      BY <2>5, <3>1, <3>3 DEF AnswerGump, Wake
  <2>6. ASSUME NEW j \in Kinds \ {"target", "menu", "gump"}, AnswerOther(d, j, t) PROVE FALSE
    BY <2>2, <2>6 DEF AnswerOther
  <2> QED
    BY <2>1, <2>3, <2>4, <2>5, <2>6 DEF Answer
<1> QED
  BY <1>0, <1>1, <1>2, InitCursor, Invariant, PTL DEF Spec, AnswersAsker
=============================================================================
