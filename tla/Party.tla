------------------------------- MODULE Party -------------------------------
(***************************************************************************)
(* Parties (party.cpp, module/partymod.cpp): invitations with a timeout,   *)
(* members, leaders, logoffs and logons, what scripts do to a party, and   *)
(* parties.txt.  A party knows its characters by serial, a character its   *)
(* party by a pointer that keeps nothing alive, so that the two have to    *)
(* agree.  Every action is one packet, task or script call under the lock. *)
(***************************************************************************)
EXTENDS SequencesExt, FiniteSets, Naturals

CONSTANTS Chars,     \* player characters
          Ids,       \* Party objects
          None,      \* NULL
          Settings,  \* the contents of party.cfg to look at
          Misuse     \* see Misuses

\* Calls that leave a party and its characters in disagreement: a character
\* who is invited leads a party of his own; a leader logs off with nobody
\* but candidates left; a character who is to rejoin is invited in the
\* meantime; a script calls a method of a party that has been disbanded.
Misuses == {"candidate_leads", "leader_deserts", "absentee_invited", "stale_ref"}

ASSUME PartyAssumption ==
    /\ None \notin Ids /\ None \notin Chars
    /\ Settings \subseteq [max : Nat \ {0, 1}, remove : BOOLEAN, rejoin : BOOLEAN]
    /\ \A s \in Settings : s.rejoin => s.remove
    /\ Misuse \subseteq Misuses

VARIABLES cfg,             \* party.cfg: MaxPartyMembers and the two logoff options
          parties,         \* gamestate.parties, whose order nothing depends on
          party,           \* party[p]: leader, members, candidates and offline members
          party_of,        \* Character::party_, candidate_of_, offline_mem_of_
          candidate_of,
          offline_mem_of,
          timeout,         \* the characters with a party_decline_timeout_
          presence         \* presence[c]: "playing", "lingering" (the client is
                           \* gone, the character is not yet) or "offline"

pointers == << party_of, candidate_of, offline_mem_of >>
vars == << cfg, parties, party, pointers, timeout, presence >>

Pointer == [Chars -> Ids \cup {None}]

Init ==
    /\ cfg \in Settings
    /\ parties = {}
    /\ party = [p \in Ids |-> [leader |-> None, members |-> << >>, candidates |-> {},
                                offline |-> {}]]
    /\ party_of = [c \in Chars |-> None]
    /\ candidate_of = [c \in Chars |-> None]
    /\ offline_mem_of = [c \in Chars |-> None]
    /\ timeout = {}
    /\ presence = [c \in Chars |-> "offline"]

-----------------------------------------------------------------------------
(* The class Party.                                                        *)

can_add(r) == Len(r.members) + Cardinality(r.candidates) < cfg.max

\* Bug: only candidates keep a party alive.
test_sizeCandidates(r) == r.candidates # {}

test_size(r) == r.candidates # {} \/ Len(r.members) > 1

is_member(r, c) == c \in ToSet(r.members)

add_member(r, c) == [r EXCEPT !.members = Append(@, c)]

remove_member(r, c) == [r EXCEPT !.members = RemoveFirst(@, c)]

set_leader(r, c) ==
    [r EXCEPT !.leader = c, !.members = << c >> \o RemoveFirst(@, c)]

NewParty(c) == [leader |-> c, members |-> << c >>, candidates |-> {}, offline |-> {}]

\* Bug: forgets the offline members.
disbandPresent(p, q, po, co, oo) ==
    /\ parties' = parties \ {p}
    /\ party' = [q EXCEPT ![p] = [@ EXCEPT !.members = << >>, !.candidates = {},
                                           !.offline = {}]]
    /\ party_of' = [c \in Chars |-> IF is_member(q[p], c) THEN None ELSE po[c]]
    /\ candidate_of' = [c \in Chars |-> IF c \in q[p].candidates THEN None ELSE co[c]]
    /\ offline_mem_of' = oo

\* Party p, with the parties q and the pointers po, co and oo, is disbanded and
\* leaves gamestate.parties.
disband(p, q, po, co, oo) ==
    /\ parties' = parties \ {p}
    /\ party' = [q EXCEPT ![p] = [@ EXCEPT !.members = << >>, !.candidates = {},
                                           !.offline = {}]]
    /\ party_of' = [c \in Chars |-> IF is_member(q[p], c) THEN None ELSE po[c]]
    /\ candidate_of' = [c \in Chars |-> IF c \in q[p].candidates THEN None ELSE co[c]]
    /\ offline_mem_of' = [c \in Chars |-> IF c \in q[p].offline THEN None ELSE oo[c]]

Keep(q, po, co, oo) ==
    /\ party' = q /\ UNCHANGED parties
    /\ party_of' = po /\ candidate_of' = co /\ offline_mem_of' = oo

\* disband_party() goes by the leader: it takes a party that has him.
disband_party(l, q, po, co, oo) ==
    \/ \E p \in parties : q[p].leader = l /\ disband(p, q, po, co, oo)
    \/ (\A p \in parties : q[p].leader # l) /\ Keep(q, po, co, oo)

\* The last thing that many handlers do: they ask whether the party that they have
\* changed, which l leads, is to go on.
GoesOn(l, stays, q, po, co, oo) ==
    IF stays THEN Keep(q, po, co, oo) ELSE disband_party(l, q, po, co, oo)

\* Bug: a party of one goes on.
send_remove_memberLeader(r, c) == c # r.leader

\* The *disband of send_remove_member(), called when c is no member any more.
send_remove_member(r, c) == c # r.leader /\ test_size(r)

\* What makes c leave p: handle_remove(), handle_remove_member_cursor() and
\* the script method removemember().
MemberGoes(c, p) ==
    LET r == remove_member(party[p], c)
    IN  GoesOn(r.leader, send_remove_member(r, c), [party EXCEPT ![p] = r],
               [party_of EXCEPT ![c] = None], candidate_of, offline_mem_of)

\* The parties that scripts call methods of.
Refs == IF "stale_ref" \in Misuse THEN {p \in Ids : party[p].leader # None} ELSE parties

-----------------------------------------------------------------------------
(* Packets of clients.                                                     *)

\* add_candidate(), for handle_add() and handle_add_member_cursor().
Invites(l, c, p, r) ==
    LET full == ~can_add(r)
        q == [party EXCEPT ![p] = IF full THEN r ELSE [r EXCEPT !.candidates = @ \cup {c}]]
    IN  /\ party' = q
        /\ party_of' = [party_of EXCEPT ![l] = p]
        /\ candidate_of' = [candidate_of EXCEPT ![c] = IF full THEN @ ELSE p]
        /\ UNCHANGED << cfg, offline_mem_of, presence >>

add_candidate(l, c) ==
    /\ presence[l] = "playing"
    /\ c # l
    /\ party_of[l] # None =>
          LET r == party[party_of[l]]
          IN r.leader = l /\ can_add(r) /\ ~is_member(r, c) /\ c \notin r.candidates
    /\ party_of[c] = None /\ candidate_of[c] = None
    /\ candidate_of[l] # None => "candidate_leads" \in Misuse
    /\ offline_mem_of[c] # None => "absentee_invited" \in Misuse
    /\ timeout' = timeout \cup {c}
    /\ \/ /\ party_of[l] # None
          /\ Invites(l, c, party_of[l], party[party_of[l]])
          /\ UNCHANGED parties
       \/ /\ party_of[l] = None
          /\ \E p \in Ids \ parties :
                Invites(l, c, p, NewParty(l)) /\ parties' = parties \cup {p}

handle_accept_invite(c, l) ==
    LET p == party_of[l]
        r == [party[p] EXCEPT !.candidates = @ \ {c}]
    IN  /\ presence[c] = "playing"
        /\ p # None /\ c \in party[p].candidates
        /\ timeout' = timeout \ {c}
        /\ Keep([party EXCEPT ![p] = IF can_add(r) THEN add_member(r, c) ELSE r],
                IF can_add(r) THEN [party_of EXCEPT ![c] = p] ELSE party_of,
                [candidate_of EXCEPT ![c] = None], offline_mem_of)
        /\ UNCHANGED << cfg, presence >>

\* c is no candidate of p any more, and the party of leader l may be at its end.
CandidateGoes(c, p, l) ==
    LET r == [party[p] EXCEPT !.candidates = @ \ {c}]
    IN  GoesOn(l, test_size(r), [party EXCEPT ![p] = r], party_of,
               [candidate_of EXCEPT ![c] = None], offline_mem_of)

handle_decline_invite(c, l) ==
    /\ presence[c] = "playing"
    /\ party_of[l] # None /\ c \in party[party_of[l]].candidates
    /\ timeout' = timeout \ {c}
    /\ CandidateGoes(c, party_of[l], l)
    /\ UNCHANGED << cfg, presence >>

\* A leader removes a member or himself, a member himself.
handle_remove(c, m) ==
    LET p == party_of[c] IN
    /\ presence[c] = "playing"
    /\ p # None /\ is_member(party[p], m)
    /\ party[p].leader = c \/ m = c
    /\ MemberGoes(m, p)
    /\ UNCHANGED << cfg, timeout, presence >>

\* The task that set_party_invite_timeout() has scheduled.
invite_timeout(c) ==
    /\ c \in timeout
    /\ timeout' = timeout \ {c}
    /\ IF candidate_of[c] # None /\ c \in party[candidate_of[c]].candidates
       THEN CandidateGoes(c, candidate_of[c], party[candidate_of[c]].leader)
       ELSE Keep(party, party_of, [candidate_of EXCEPT ![c] = None], offline_mem_of)
    /\ UNCHANGED << cfg, presence >>

-----------------------------------------------------------------------------
(* Functions and methods of scripts.                                       *)

Unattached(c) ==
    party_of[c] = None /\ candidate_of[c] = None /\ offline_mem_of[c] = None

addmember(p, c) ==
    /\ Unattached(c) /\ can_add(party[p])
    /\ Keep([party EXCEPT ![p] = add_member(@, c)], [party_of EXCEPT ![c] = p],
            candidate_of, offline_mem_of)
    /\ UNCHANGED << cfg, timeout, presence >>

removemember(p, c) ==
    /\ is_member(party[p], c) /\ party[p].leader # c
    /\ MemberGoes(c, p)
    /\ UNCHANGED << cfg, timeout, presence >>

setleader(p, c) ==
    /\ is_member(party[p], c) /\ party[p].leader # c
    /\ party' = [party EXCEPT ![p] = set_leader(@, c)]
    /\ UNCHANGED << cfg, parties, pointers, timeout, presence >>

addcandidate(p, c) ==
    /\ Unattached(c) /\ can_add(party[p]) /\ presence[c] = "playing"
    /\ timeout' = timeout \cup {c}
    /\ Keep([party EXCEPT ![p].candidates = @ \cup {c}], party_of,
            [candidate_of EXCEPT ![c] = p], offline_mem_of)
    /\ UNCHANGED << cfg, presence >>

removecandidate(p, c) ==
    /\ c \in party[p].candidates
    /\ timeout' = timeout \ {c}
    /\ CandidateGoes(c, p, party[p].leader)
    /\ UNCHANGED << cfg, presence >>

CreateParty(l, c) ==
    /\ l # c /\ Unattached(l) /\ Unattached(c)
    /\ \E p \in Ids \ parties :
          /\ parties' = parties \cup {p}
          /\ party' = [party EXCEPT ![p] = add_member(NewParty(l), c)]
          /\ party_of' = [party_of EXCEPT ![l] = p, ![c] = p]
    /\ UNCHANGED << cfg, candidate_of, offline_mem_of, timeout, presence >>

DisbandParty(p) ==
    /\ disband_party(party[p].leader, party, party_of, candidate_of, offline_mem_of)
    /\ UNCHANGED << cfg, timeout, presence >>

-----------------------------------------------------------------------------
(* Logons, logoffs, and a stop and start of the server.                    *)

\* Bug: the test of the range is off by one.
get_member_at_0Short(r, erased) == IF Len(r.members) <= 1 THEN None ELSE r.members[1]

\* get_member_at(0) of an empty vector reads what erase() has left there, which is
\* the character who was the last member.
get_member_at_0(r, erased) == IF r.members = << >> THEN erased ELSE r.members[1]

\* A leader who goes hands on the lead, unless nobody is left.
LeaderLeft(c, r) == IF r.leader = c /\ test_size(r)
                      THEN set_leader(r, get_member_at_0(r, c)) ELSE r

on_loggoff_party(c) ==
    LET p == party_of[c] IN
    IF p = None \/ ~cfg.remove \/ ~is_member(party[p], c)
    THEN UNCHANGED << parties, party, pointers >>
    ELSE LET gone == remove_member(party[p], c)
             r    == LeaderLeft(c, gone)
             stays == test_size(gone)
             back  == cfg.rejoin /\ stays
         IN  /\ gone.leader = c /\ gone.members = << >> /\ stays
                   => "leader_deserts" \in Misuse
             /\ GoesOn(r.leader, stays,
                       [party EXCEPT ![p] = IF back THEN [r EXCEPT !.offline = @ \cup {c}]
                                                    ELSE r],
                       [party_of EXCEPT ![c] = None], candidate_of,
                       IF back THEN [offline_mem_of EXCEPT ![c] = p] ELSE offline_mem_of)

on_loggon_party(c) ==
    LET p == offline_mem_of[c]
        r == [party[p] EXCEPT !.offline = @ \ {c}]
        back == c \in party[p].offline /\ can_add(r)
    IN  IF p = None THEN UNCHANGED << parties, party, pointers >>
        ELSE Keep([party EXCEPT ![p] = IF back THEN add_member(r, c) ELSE r],
                  IF back THEN [party_of EXCEPT ![c] = p] ELSE party_of,
                  candidate_of, [offline_mem_of EXCEPT ![c] = None])

\* start_client_char(), also for a client that takes the character over.
Logon(c) ==
    /\ presence' = [presence EXCEPT ![c] = "playing"]
    /\ on_loggon_party(c)
    /\ UNCHANGED << cfg, timeout >>

\* disconnect_cleanup(), when the client is gone ...
Disconnect(c) ==
    /\ presence[c] = "playing"
    /\ presence' = [presence EXCEPT ![c] = "lingering"]
    /\ on_loggoff_party(c)
    /\ UNCHANGED << cfg, timeout >>

\* ... and again when the character leaves the world.
Logoff(c) ==
    /\ presence[c] = "lingering"
    /\ presence' = [presence EXCEPT ![c] = "offline"]
    /\ on_loggoff_party(c)
    /\ UNCHANGED << cfg, timeout >>

\* What write_party() writes.
Written(p) == ~cfg.remove /\ Len(party[p].members) > 1

\* The server stops after a save and starts again: read_party_dat() and
\* register_with_members().
Restart ==
    LET kept == {p \in parties : Written(p)}
        Of(c) == {p \in kept : is_member(party[p], c)}
    IN
    /\ parties' = kept
    /\ party' = [p \in Ids |-> [party[p] EXCEPT
                    !.members = IF p \in kept THEN @ ELSE << >>,
                    !.candidates = {}, !.offline = {}]]
    /\ party_of' \in Pointer
    /\ \A c \in Chars : party_of'[c] \in IF Of(c) = {} THEN {None} ELSE Of(c)
    /\ candidate_of' = [c \in Chars |-> None]
    /\ offline_mem_of' = [c \in Chars |-> None]
    /\ timeout' = {}
    /\ presence' = [c \in Chars |-> "offline"]
    /\ UNCHANGED cfg

-----------------------------------------------------------------------------
Next ==
    \/ \E c, d \in Chars : \/ add_candidate(c, d) \/ CreateParty(c, d)
                           \/ handle_accept_invite(c, d) \/ handle_decline_invite(c, d)
                           \/ handle_remove(c, d)
    \/ \E c \in Chars : invite_timeout(c) \/ Logon(c) \/ Disconnect(c) \/ Logoff(c)
    \/ \E p \in Refs : \/ DisbandParty(p)
                       \/ \E c \in Chars : \/ addmember(p, c) \/ removemember(p, c)
                                           \/ addcandidate(p, c) \/ removecandidate(p, c)
                                           \/ setleader(p, c)
    \/ Restart

Spec == Init /\ [][Next]_vars

-----------------------------------------------------------------------------
TypeOK ==
    /\ cfg \in Settings
    /\ parties \subseteq Ids
    /\ party \in [Ids -> [leader : Chars \cup {None}, members : Seq(Chars),
                          candidates : SUBSET Chars, offline : SUBSET Chars]]
    /\ party_of \in Pointer /\ candidate_of \in Pointer /\ offline_mem_of \in Pointer
    /\ timeout \subseteq Chars
    /\ presence \in [Chars -> {"playing", "lingering", "offline"}]

(* A character's party pointer and the members of the parties agree, so that
   the pointer never leads to a party that has been disbanded, and nobody is
   a member of two parties or twice of one. *)
MembersAgree ==
    /\ \A c \in Chars, p \in Ids :
          party_of[c] = p <=> p \in parties /\ is_member(party[p], c)
    /\ \A p \in Ids : IsInjective(party[p].members)

(* The same of invitations, and of those who are to rejoin at their logon. *)
CandidatesAgree ==
    \A c \in Chars, p \in Ids :
       candidate_of[c] = p <=> p \in parties /\ c \in party[p].candidates
OfflineAgree ==
    \A c \in Chars, p \in Ids :
       offline_mem_of[c] = p <=> p \in parties /\ c \in party[p].offline

(* A character is a member, a candidate or expected back, never two of these:
   "This person is already in a party!" *)
OneRole ==
    \A c \in Chars :
       Cardinality({f \in {<< 1, party_of[c] >>, << 2, candidate_of[c] >>,
                           << 3, offline_mem_of[c] >>} : f[2] # None}) <= 1

(* Every party has a leader who is a member of it, whoever leaves, logs off or
   is put in the lead: disband_party() finds a party by its leader. *)
LeaderIsMember ==
    \A p \in parties : is_member(party[p], party[p].leader)

(* A party that has nobody left to talk to is disbanded at once. *)
NoLoneParty ==
    \A p \in parties :
       Len(party[p].members) + Cardinality(party[p].candidates) > 1

(* Members and candidates together never exceed MaxPartyMembers, whoever
   rejoins. *)
WithinLimit ==
    \A p \in parties :
       Len(party[p].members) + Cardinality(party[p].candidates) <= cfg.max

(* An invitation has a timeout under way: nobody stays a candidate, and so
   excluded from every other party, for good. *)
InvitedIsTimed == \A c \in Chars : candidate_of[c] # None => c \in timeout

(* What a character's pointers say and what the parties say is the same,
   through packets, scripts, timeouts, logons and logoffs: one role in one party,
   and a timeout for every invitation. *)
RolesAgree == MembersAgree /\ CandidatesAgree /\ OfflineAgree /\ OneRole /\ InvitedIsTimed

(* Every party that is left by any of these has a leader by whom it can be found
   and disbanded, somebody to lead, and no more than its limit. *)
PartiesViable == LeaderIsMember /\ NoLoneParty /\ WithinLimit

(* A party of three or more ends only when its leader leaves it, when a script
   disbands it, or when the server stops. *)
LargePartiesLast ==
    [][\A p \in parties :
          Len(party[p].members) > 2 /\ p \notin parties'
             => \/ handle_remove(party[p].leader, party[p].leader)
                \/ DisbandParty(p) \/ Restart]_vars
=============================================================================
