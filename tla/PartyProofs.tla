---------------------------- MODULE PartyProofs ----------------------------
(***************************************************************************)
(* Theorems about Party: the types, for every misuse; and, when nothing    *)
(* is misused, that characters and parties agree, that every party has a   *)
(* leader and somebody to lead, and how a large party ends.                *)
(***************************************************************************)
EXTENDS Party, FiniteSetTheorems, SequenceTheorems, WellFoundedInduction, TLAPS

-----------------------------------------------------------------------------
(* Lists without repetition.                                               *)

(* Of the places where a list has an element there is a first. *)
LEMMA FirstPlace ==
    ASSUME NEW I, I \subseteq Nat, I # {}
    PROVE  Min(I) \in I
<1>1. PICK x \in I : \A y \in I : ~(<< y, x >> \in OpToRel(<, Nat))
  BY WFMin, NatLessThanWellFounded
<1>2. ASSUME NEW y \in I PROVE x <= y
  <2>1. y \in Nat /\ x \in Nat
    OBVIOUS
  <2>2. y < x => << y, x >> \in {ss \in Nat \X Nat : ss[1] < ss[2]}
    BY <2>1
  <2>3. OpToRel(<, Nat) = {ss \in Nat \X Nat : ss[1] < ss[2]}
    BY DEF OpToRel
  <2>4. << y, x >> \notin {ss \in Nat \X Nat : ss[1] < ss[2]}
    BY <1>1, <2>3, Zenon
  <2>5. ~(y < x)
    BY <2>2, <2>4
  <2> QED
    BY <2>1, <2>5
<1> QED
  BY <1>2 DEF Min
LEMMA RemoveFirstType ==
    ASSUME NEW S, NEW s \in Seq(S), NEW e
    PROVE  RemoveFirst(s, e) \in Seq(S)
<1> DEFINE I == {i \in 1 .. Len(s) : s[i] = e}
<1>1. CASE \E i \in 1 .. Len(s) : s[i] = e
  <2>1. I # {} /\ I \subseteq Nat /\ I \subseteq 1 .. Len(s)
    BY <1>1
  <2>2. Min(I) \in 1 .. Len(s)
    <3> HIDE DEF I
    <3> QED
      BY <2>1, FirstPlace
  <2>3. RemoveFirst(s, e) = SubSeq(s, 1, Min(I) - 1) \o SubSeq(s, Min(I) + 1, Len(s))
    BY <1>1 DEF RemoveFirst, RemoveAt, SelectInSeq
  <2> HIDE DEF I
  <2> QED
    BY <2>2, <2>3
<1> QED
  BY <1>1 DEF RemoveFirst
LEMMA RemoveFirstNone ==
    ASSUME NEW S, NEW s \in Seq(S), NEW e, e \notin ToSet(s)
    PROVE  RemoveFirst(s, e) = s
BY DEF RemoveFirst, ToSet
LEMMA RemoveFirstOne ==
    ASSUME NEW S, NEW s \in Seq(S), NEW e \in ToSet(s), IsInjective(s)
    PROVE  /\ RemoveFirst(s, e) \in Seq(S)
           /\ Len(RemoveFirst(s, e)) = Len(s) - 1
           /\ ToSet(RemoveFirst(s, e)) = ToSet(s) \ {e}
           /\ IsInjective(RemoveFirst(s, e))
<1> DEFINE I == {i \in 1 .. Len(s) : s[i] = e}
           k == Min(I)
           t == RemoveFirst(s, e)
<1>1. \E i \in 1 .. Len(s) : s[i] = e
  BY DEF ToSet
<1>2. k \in 1 .. Len(s) /\ s[k] = e
  <2>1. I # {} /\ I \subseteq Nat /\ \A i \in I : i \in 1 .. Len(s) /\ s[i] = e
    BY <1>1
  <2> HIDE DEF I
  <2> QED
    BY <2>1, FirstPlace
<1>3. t = SubSeq(s, 1, k - 1) \o SubSeq(s, k + 1, Len(s))
  BY <1>1 DEF RemoveFirst, RemoveAt, SelectInSeq
<1> HIDE DEF I, k, t
<1>4. /\ t \in Seq(S) /\ Len(t) = Len(s) - 1
      /\ \A i \in 1 .. Len(t) : t[i] = IF i < k THEN s[i] ELSE s[i + 1]
  <2> DEFINE a == SubSeq(s, 1, k - 1)
             b == SubSeq(s, k + 1, Len(s))
  <2>1. a \in Seq(S) /\ Len(a) = k - 1 /\ \A i \in 1 .. k - 1 : a[i] = s[i]
    BY <1>2
  <2>2. /\ b \in Seq(S) /\ Len(b) = Len(s) - k
        /\ \A i \in 1 .. Len(s) - k : b[i] = s[k + i]
    <3>1. k + 1 \in Int /\ Len(s) \in Int /\ \A i \in k + 1 .. Len(s) : s[i] \in S
      BY <1>2
    <3>2. /\ b \in Seq(S)
          /\ Len(b) = IF k + 1 <= Len(s) THEN Len(s) - (k + 1) + 1 ELSE 0
          /\ \A i \in 1 .. Len(s) - (k + 1) + 1 : b[i] = s[(k + 1) + i - 1]
      <4> HIDE DEF b
      <4>1. b = SubSeq(s, k + 1, Len(s))
        BY DEF b
      <4> QED
        BY <3>1, <4>1, SubSeqProperties
    <3> QED
      BY <1>2, <3>2
  <2> HIDE DEF a, b
  <2>3. t = a \o b
    BY <1>3 DEF a, b
  <2>4. /\ t \in Seq(S) /\ Len(t) = Len(s) - 1
        /\ \A i \in 1 .. Len(t) : t[i] = IF i <= k - 1 THEN a[i] ELSE b[i - (k - 1)]
    <3>1. /\ Len(a \o b) = Len(a) + Len(b) /\ a \o b \in Seq(S)
          /\ \A i \in 1 .. Len(a) + Len(b) :
                (a \o b)[i] = IF i <= Len(a) THEN a[i] ELSE b[i - Len(a)]
      BY <2>1, <2>2, ConcatProperties
    <3> QED
      BY <1>2, <2>1, <2>2, <2>3, <3>1
  <2>5. ASSUME NEW i \in 1 .. Len(t) PROVE t[i] = IF i < k THEN s[i] ELSE s[i + 1]
    <3>1. CASE i < k
      BY <1>2, <2>1, <2>4, <3>1
    <3>2. CASE i >= k
      <4>1. i - (k - 1) \in 1 .. Len(s) - k /\ k + (i - (k - 1)) = i + 1
        BY <1>2, <2>4, <3>2
      <4> QED
        BY <1>2, <2>2, <2>4, <3>2, <4>1
    <3> QED
      BY <1>2, <3>1, <3>2
  <2> QED
    BY <2>4, <2>5
<1>5. ASSUME NEW x \in ToSet(t) PROVE x \in ToSet(s) \ {e}
  <2>1. PICK i \in 1 .. Len(t) : t[i] = x
    BY <1>4 DEF ToSet
  <2>2. CASE i < k
    <3>1. i \in DOMAIN s /\ x = s[i] /\ i # k /\ k \in DOMAIN s
      BY <1>2, <1>4, <2>1, <2>2
    <3> QED
      BY <1>2, <3>1 DEF ToSet, IsInjective
  <2>3. CASE i >= k
    <3>1. i + 1 \in DOMAIN s /\ x = s[i + 1] /\ i + 1 # k /\ k \in DOMAIN s
      BY <1>2, <1>4, <2>1, <2>3
    <3> QED
      BY <1>2, <3>1 DEF ToSet, IsInjective
  <2> QED
    BY <1>2, <2>1, <2>2, <2>3
<1>6. ASSUME NEW x \in ToSet(s) \ {e} PROVE x \in ToSet(t)
  <2>1. PICK i \in 1 .. Len(s) : s[i] = x
    BY DEF ToSet
  <2>2. CASE i < k
    <3>1. i \in 1 .. Len(t) /\ t[i] = x
      BY <1>2, <1>4, <2>1, <2>2
    <3> QED
      BY <1>4, <3>1 DEF ToSet
  <2>3. CASE i > k
    <3>1. i - 1 \in 1 .. Len(t) /\ t[i - 1] = x
      BY <1>2, <1>4, <2>1, <2>3
    <3> QED
      BY <1>4, <3>1 DEF ToSet
  <2> QED
    BY <1>2, <2>1, <2>2, <2>3
<1>7. IsInjective(t)
  <2> SUFFICES ASSUME NEW i \in 1 .. Len(t), NEW j \in 1 .. Len(t), t[i] = t[j]
               PROVE  i = j
    BY <1>4 DEF IsInjective
  <2> DEFINE Old(n) == IF n < k THEN n ELSE n + 1
  <2>1. ASSUME NEW n \in 1 .. Len(t) PROVE Old(n) \in DOMAIN s /\ t[n] = s[Old(n)]
    <3>1. CASE n < k
      BY <1>2, <1>4, <3>1
    <3>2. CASE n >= k
      BY <1>2, <1>4, <3>2
    <3> QED
      BY <1>2, <3>1, <3>2
  <2> HIDE DEF Old
  <2>2. Old(i) = Old(j)
    <3>1. /\ Old(i) \in DOMAIN s /\ Old(j) \in DOMAIN s
          /\ s[Old(i)] = s[Old(j)]
      BY <2>1
    <3> QED
      BY <3>1 DEF IsInjective
  <2> QED
    BY <1>2, <2>2 DEF Old
<1> QED
  BY <1>4, <1>5, <1>6, <1>7 DEF t

LEMMA AppendOne ==
    ASSUME NEW S, NEW s \in Seq(S), NEW e \in S
    PROVE  /\ Append(s, e) \in Seq(S)
           /\ Len(Append(s, e)) = Len(s) + 1
           /\ ToSet(Append(s, e)) = ToSet(s) \cup {e}
           /\ IsInjective(s) /\ e \notin ToSet(s) => IsInjective(Append(s, e))
<1>1. /\ Append(s, e) \in Seq(S) /\ Len(Append(s, e)) = Len(s) + 1
      /\ \A i \in 1 .. Len(s) : Append(s, e)[i] = s[i]
      /\ Append(s, e)[Len(s) + 1] = e
  BY AppendProperties
<1> DEFINE t == Append(s, e)
<1> HIDE DEF t
<1>2. ToSet(t) = ToSet(s) \cup {e}
  <2>1. ASSUME NEW x \in ToSet(t) PROVE x \in ToSet(s) \cup {e}
    BY <1>1 DEF ToSet, t
  <2>2. ASSUME NEW x \in ToSet(s) \cup {e} PROVE x \in ToSet(t)
    BY <1>1 DEF ToSet, t
  <2> QED
    BY <2>1, <2>2
<1>3. IsInjective(s) /\ e \notin ToSet(s) => IsInjective(t)
  BY <1>1 DEF IsInjective, ToSet, t
<1> QED
  BY <1>1, <1>2, <1>3 DEF t
LEMMA PutFirst ==
    ASSUME NEW S, NEW s \in Seq(S), NEW e \in S
    PROVE  /\ << e >> \o s \in Seq(S)
           /\ Len(<< e >> \o s) = Len(s) + 1
           /\ ToSet(<< e >> \o s) = ToSet(s) \cup {e}
           /\ IsInjective(s) /\ e \notin ToSet(s) => IsInjective(<< e >> \o s)
<1> DEFINE t == << e >> \o s
<1>1. /\ t \in Seq(S) /\ Len(t) = Len(s) + 1
      /\ \A i \in 1 .. Len(s) : t[i + 1] = s[i]
      /\ t[1] = e
  OBVIOUS
<1> HIDE DEF t
<1>2. ToSet(t) = ToSet(s) \cup {e}
  <2>1. ASSUME NEW x \in ToSet(t) PROVE x \in ToSet(s) \cup {e}
    <3>1. PICK i \in 1 .. Len(t) : t[i] = x
      BY <1>1 DEF ToSet
    <3>2. CASE i = 1
      BY <1>1, <3>1, <3>2
    <3>3. CASE i # 1
      <4>1. i - 1 \in 1 .. Len(s) /\ s[i - 1] = x
        BY <1>1, <3>1, <3>3
      <4> QED
        BY <4>1 DEF ToSet
    <3> QED
      BY <3>2, <3>3
  <2>2. ASSUME NEW x \in ToSet(s) \cup {e} PROVE x \in ToSet(t)
    BY <1>1 DEF ToSet
  <2> QED
    BY <2>1, <2>2
<1>3. ASSUME IsInjective(s), e \notin ToSet(s) PROVE IsInjective(t)
  <2> SUFFICES ASSUME NEW i \in 1 .. Len(t), NEW j \in 1 .. Len(t), t[i] = t[j], i < j
               PROVE  FALSE
    BY <1>1 DEF IsInjective
  <2>1. j - 1 \in 1 .. Len(s) /\ s[j - 1] = t[j]
    BY <1>1
  <2>2. CASE i = 1
    BY <1>1, <1>3, <2>1, <2>2 DEF ToSet
  <2>3. CASE i # 1
    <3>1. i - 1 \in 1 .. Len(s) /\ s[i - 1] = t[i]
      BY <1>1, <2>3
    <3> QED
      BY <1>3, <2>1, <3>1 DEF IsInjective
  <2> QED
    BY <2>2, <2>3
<1> QED
  BY <1>1, <1>2, <1>3 DEF t
-----------------------------------------------------------------------------
(* Types.                                                                  *)

Records == [leader : Chars \cup {None}, members : Seq(Chars),
            candidates : SUBSET Chars, offline : SUBSET Chars]

\* The parties ps with the records q and the pointers po, co and oo have their types.
Typed(ps, q, po, co, oo) ==
    /\ ps \subseteq Ids /\ q \in [Ids -> Records]
    /\ po \in Pointer /\ co \in Pointer /\ oo \in Pointer

TypedNow == Typed(parties, party, party_of, candidate_of, offline_mem_of)

Others == /\ cfg \in Settings /\ timeout \subseteq Chars
          /\ presence \in [Chars -> {"playing", "lingering", "offline"}]

LEMMA TypeParts == TypeOK <=> TypedNow /\ Others
BY DEF TypeOK, TypedNow, Typed, Records, Others
LEMMA TypePartsNext == TypeOK' <=> TypedNow' /\ Others'
BY DEF TypeOK, TypedNow, Typed, Records, Others
LEMMA RecordOps ==
    ASSUME NEW r \in Records, NEW c \in Chars
    PROVE  /\ add_member(r, c) \in Records /\ remove_member(r, c) \in Records
           /\ set_leader(r, c) \in Records /\ NewParty(c) \in Records
           /\ [r EXCEPT !.candidates = @ \ {c}] \in Records
           /\ [r EXCEPT !.candidates = @ \cup {c}] \in Records
           /\ [r EXCEPT !.offline = @ \ {c}] \in Records
           /\ [r EXCEPT !.offline = @ \cup {c}] \in Records
<1>1. r.members \in Seq(Chars)
  BY DEF Records
<1>2. RemoveFirst(r.members, c) \in Seq(Chars)
  BY <1>1, RemoveFirstType
<1>3. Append(r.members, c) \in Seq(Chars)
  BY <1>1
<1>4. << c >> \o RemoveFirst(r.members, c) \in Seq(Chars)
  BY <1>2, PutFirst
<1>5. << c >> \in Seq(Chars)
  OBVIOUS
<1> QED
  BY <1>1, <1>2, <1>3, <1>4, <1>5 DEF Records, add_member, remove_member, set_leader, NewParty
LEMMA GoesOnType ==
    ASSUME NEW l, NEW stays, NEW q, NEW po, NEW co, NEW oo,
           Typed(parties, q, po, co, oo), GoesOn(l, stays, q, po, co, oo)
    PROVE  TypedNow'
<1>1. CASE Keep(q, po, co, oo)
  BY <1>1 DEF Keep, Typed, TypedNow
<1>2. ASSUME NEW p \in parties, disband(p, q, po, co, oo)
      PROVE  TypedNow'
  <2>1. p \in Ids /\ q[p] \in Records
    BY DEF Typed
  <2>2. << >> \in Seq(Chars)
    OBVIOUS
  <2>3. [q[p] EXCEPT !.members = << >>, !.candidates = {}, !.offline = {}] \in Records
    BY <2>1, <2>2 DEF Records
  <2>4. party' \in [Ids -> Records]
    BY <1>2, <2>1, <2>3 DEF disband, Typed
  <2> QED
    BY <1>2, <2>4 DEF disband, Typed, TypedNow, Pointer
<1> QED
  BY <1>1, <1>2 DEF GoesOn, disband_party
LEMMA MemberGoesType ==
    ASSUME TypedNow, NEW c \in Chars, NEW p \in Ids, MemberGoes(c, p)
    PROVE  TypedNow'
<1> DEFINE r == remove_member(party[p], c)
<1>1. r \in Records
  BY RecordOps DEF TypedNow, Typed
<1>2. Typed(parties, [party EXCEPT ![p] = r], [party_of EXCEPT ![c] = None],
            candidate_of, offline_mem_of)
  BY <1>1 DEF TypedNow, Typed, Pointer
<1>3. GoesOn(r.leader, send_remove_member(r, c), [party EXCEPT ![p] = r],
             [party_of EXCEPT ![c] = None], candidate_of, offline_mem_of)
  BY DEF MemberGoes
<1> QED
  BY <1>2, <1>3, GoesOnType
LEMMA CandidateGoesType ==
    ASSUME TypedNow, NEW c \in Chars, NEW p \in Ids, NEW l, CandidateGoes(c, p, l)
    PROVE  TypedNow'
<1> DEFINE r == [party[p] EXCEPT !.candidates = @ \ {c}]
<1>1. r \in Records
  BY RecordOps DEF TypedNow, Typed
<1>2. Typed(parties, [party EXCEPT ![p] = r], party_of, [candidate_of EXCEPT ![c] = None],
            offline_mem_of)
  BY <1>1 DEF TypedNow, Typed, Pointer
<1>3. GoesOn(l, test_size(r), [party EXCEPT ![p] = r], party_of,
             [candidate_of EXCEPT ![c] = None], offline_mem_of)
  BY DEF CandidateGoes
<1> QED
  BY <1>2, <1>3, GoesOnType
LEMMA InviteType ==
    ASSUME TypedNow, NEW l \in Chars, NEW c \in Chars, add_candidate(l, c)
    PROVE  TypedNow'
<1>1. ASSUME NEW p \in Ids, NEW r \in Records, Invites(l, c, p, r), parties' \subseteq Ids
      PROVE  TypedNow'
  <2> DEFINE r1 == IF ~can_add(r) THEN r ELSE [r EXCEPT !.candidates = @ \cup {c}]
  <2>1. r1 \in Records
    BY RecordOps
  <2>2. party' = [party EXCEPT ![p] = r1]
    BY <1>1 DEF Invites
  <2> HIDE DEF r1
  <2>3. party_of' \in Pointer /\ candidate_of' \in Pointer /\ offline_mem_of' \in Pointer
    BY <1>1 DEF Invites, TypedNow, Typed, Pointer
  <2> QED
    BY <1>1, <2>1, <2>2, <2>3 DEF TypedNow, Typed
<1>2. CASE party_of[l] # None /\ Invites(l, c, party_of[l], party[party_of[l]])
           /\ UNCHANGED parties
  <2>1. party_of[l] \in Ids /\ party[party_of[l]] \in Records /\ parties' \subseteq Ids
    BY <1>2 DEF TypedNow, Typed, Pointer
  <2> QED
    BY <1>1, <1>2, <2>1
<1>3. ASSUME NEW p \in Ids \ parties, Invites(l, c, p, NewParty(l)),
             parties' = parties \cup {p}
      PROVE  TypedNow'
  BY <1>1, <1>3, RecordOps DEF TypedNow, Typed, NewParty, Records
<1> QED
  BY <1>2, <1>3 DEF add_candidate
LEMMA AcceptType ==
    ASSUME TypedNow, NEW c \in Chars, NEW l \in Chars, handle_accept_invite(c, l)
    PROVE  TypedNow'
<1> DEFINE p == party_of[l]
           r == [party[p] EXCEPT !.candidates = @ \ {c}]
           r1 == IF can_add(r) THEN add_member(r, c) ELSE r
<1>1. p \in Ids
  BY DEF handle_accept_invite, TypedNow, Typed, Pointer
<1>2. r \in Records
  BY <1>1, RecordOps DEF TypedNow, Typed
<1>3. r1 \in Records
  <2> HIDE DEF r
  <2> QED
    BY <1>2, RecordOps
<1>4. /\ party' = [party EXCEPT ![p] = r1] /\ parties' = parties
      /\ party_of' = IF can_add(r) THEN [party_of EXCEPT ![c] = p] ELSE party_of
      /\ candidate_of' = [candidate_of EXCEPT ![c] = None]
      /\ offline_mem_of' = offline_mem_of
  BY DEF handle_accept_invite, Keep
<1> HIDE DEF p, r, r1
<1> QED
  BY <1>1, <1>3, <1>4 DEF TypedNow, Typed, Pointer
LEMMA ScriptType ==
    ASSUME TypedNow, NEW p \in Ids, NEW c \in Chars,
           addmember(p, c) \/ addcandidate(p, c) \/ setleader(p, c)
    PROVE  TypedNow'
<1>1. party[p] \in Records
  BY DEF TypedNow, Typed
<1>2. CASE addmember(p, c)
  <2>1. party' = [party EXCEPT ![p] = add_member(party[p], c)]
    BY <1>2 DEF addmember, Keep
  <2> QED
    BY <1>1, <1>2, <2>1, RecordOps DEF addmember, Keep, TypedNow, Typed, Pointer
<1>3. CASE addcandidate(p, c)
  <2>1. party' = [party EXCEPT ![p] = [party[p] EXCEPT !.candidates = @ \cup {c}]]
    BY <1>3 DEF addcandidate, Keep, TypedNow, Typed
  <2> QED
    BY <1>1, <1>3, <2>1, RecordOps DEF addcandidate, Keep, TypedNow, Typed, Pointer
<1>4. CASE setleader(p, c)
  <2>1. party' = [party EXCEPT ![p] = set_leader(party[p], c)]
    BY <1>4 DEF setleader
  <2> QED
    BY <1>1, <1>4, <2>1, RecordOps DEF setleader, pointers, TypedNow, Typed, Pointer
<1> QED
  BY <1>2, <1>3, <1>4
LEMMA CreateType ==
    ASSUME TypedNow, NEW l \in Chars, NEW c \in Chars, CreateParty(l, c)
    PROVE  TypedNow'
<1>1. PICK p \in Ids \ parties :
         /\ parties' = parties \cup {p}
         /\ party' = [party EXCEPT ![p] = add_member(NewParty(l), c)]
         /\ party_of' = [party_of EXCEPT ![l] = p, ![c] = p]
  BY DEF CreateParty
<1>2. NewParty(l) \in Records
  BY RecordOps DEF TypedNow, Typed, NewParty, Records
<1>3. add_member(NewParty(l), c) \in Records
  BY <1>2, RecordOps
<1> QED
  BY <1>1, <1>3 DEF CreateParty, TypedNow, Typed, Pointer
LEMMA LogoffType ==
    ASSUME TypedNow, NEW c \in Chars, on_loggoff_party(c)
    PROVE  TypedNow'
<1> DEFINE p == party_of[c]
           gone == remove_member(party[p], c)
           r == LeaderLeft(c, gone)
           stays == test_size(gone)
           back == cfg.rejoin /\ stays
           r1 == IF back THEN [r EXCEPT !.offline = @ \cup {c}] ELSE r
           oo == IF back THEN [offline_mem_of EXCEPT ![c] = p] ELSE offline_mem_of
<1>1. CASE UNCHANGED << parties, party, pointers >>
  BY <1>1 DEF pointers, TypedNow, Typed
<1>2. CASE p # None /\ GoesOn(r.leader, stays, [party EXCEPT ![p] = r1],
                              [party_of EXCEPT ![c] = None], candidate_of, oo)
  <2>1. p \in Ids
    BY <1>2 DEF TypedNow, Typed, Pointer
  <2>2. gone \in Records
    BY <2>1, RecordOps DEF TypedNow, Typed
  <2>3. get_member_at_0(gone, c) \in Chars
    <3>1. gone.members \in Seq(Chars)
      BY <2>2 DEF Records
    <3> HIDE DEF gone
    <3> QED
      BY <3>1 DEF get_member_at_0
  <2>4. r \in Records
    BY <2>2, <2>3, RecordOps DEF LeaderLeft
  <2>5. r1 \in Records
    <3> HIDE DEF r
    <3> QED
      BY <2>4, RecordOps
  <2> HIDE DEF r1
  <2>6. Typed(parties, [party EXCEPT ![p] = r1], [party_of EXCEPT ![c] = None],
              candidate_of, oo)
    BY <2>1, <2>5 DEF TypedNow, Typed, Pointer
  <2> HIDE DEF p, stays, oo, r
  <2> QED
    BY <1>2, <2>6, GoesOnType
<1> QED
  BY <1>1, <1>2 DEF on_loggoff_party
LEMMA LogonType ==
    ASSUME TypedNow, NEW c \in Chars, on_loggon_party(c)
    PROVE  TypedNow'
<1> DEFINE p == offline_mem_of[c]
           r == [party[p] EXCEPT !.offline = @ \ {c}]
           back == c \in party[p].offline /\ can_add(r)
           r1 == IF back THEN add_member(r, c) ELSE r
<1>1. CASE p = None
  BY <1>1 DEF on_loggon_party, pointers, TypedNow, Typed
<1>2. CASE p # None
  <2>1. p \in Ids
    BY <1>2 DEF TypedNow, Typed, Pointer
  <2>2. r \in Records
    BY <2>1, RecordOps DEF TypedNow, Typed
  <2>3. r1 \in Records
    <3> HIDE DEF r
    <3> QED
      BY <2>2, RecordOps
  <2>4. /\ party' = [party EXCEPT ![p] = r1] /\ parties' = parties
        /\ party_of' = IF back THEN [party_of EXCEPT ![c] = p] ELSE party_of
        /\ candidate_of' = candidate_of
        /\ offline_mem_of' = [offline_mem_of EXCEPT ![c] = None]
    BY <1>2 DEF on_loggon_party, Keep
  <2> HIDE DEF p, r, r1, back
  <2> QED
    BY <2>1, <2>3, <2>4 DEF TypedNow, Typed, Pointer
<1> QED
  BY <1>1, <1>2
LEMMA RestartType == ASSUME TypeOK, Restart PROVE TypeOK'
<1> DEFINE kept == {p \in parties : Written(p)}
<1>1. \A p \in Ids : [party[p] EXCEPT
                         !.members = IF p \in kept THEN @ ELSE << >>,
                         !.candidates = {}, !.offline = {}] \in Records
  <2>1. << >> \in Seq(Chars)
    OBVIOUS
  <2> HIDE DEF kept
  <2> QED
    BY <2>1, TypeParts DEF TypedNow, Typed, Records
<1>2. party' \in [Ids -> Records]
  BY <1>1 DEF Restart
<1>3. TypedNow'
  BY <1>2, TypeParts DEF Restart, TypedNow, Typed, Pointer
<1>4. Others'
  BY TypeParts DEF Restart, Others
<1> QED
  BY <1>3, <1>4, TypePartsNext
LEMMA RefsAreParties == ASSUME TypeOK, NEW p \in Refs PROVE p \in Ids
BY DEF Refs, TypeOK
LEMMA InitType == Init => TypeOK
<1> SUFFICES ASSUME Init PROVE TypeOK
  OBVIOUS
<1>1. << >> \in Seq(Chars)
  OBVIOUS
<1>2. party \in [Ids -> Records]
  BY <1>1 DEF Init, Records
<1>3. TypedNow /\ Others
  BY <1>2 DEF Init, TypedNow, Typed, Others, Pointer
<1> QED
  BY <1>3, TypeParts
LEMMA NextType == TypeOK /\ [Next]_vars => TypeOK'
<1> SUFFICES ASSUME TypeOK, [Next]_vars PROVE TypeOK'
  OBVIOUS
<1>0. TypedNow /\ Others
  BY TypeParts
<1>1. ASSUME NEW c \in Chars, NEW d \in Chars, add_candidate(c, d) PROVE TypeOK'
  BY <1>0, <1>1, InviteType, TypePartsNext DEF add_candidate, Invites, Others
<1>2. ASSUME NEW c \in Chars, NEW d \in Chars, CreateParty(c, d) PROVE TypeOK'
  BY <1>0, <1>2, CreateType, TypePartsNext DEF CreateParty, Others
<1>3. ASSUME NEW c \in Chars, NEW d \in Chars, handle_accept_invite(c, d) PROVE TypeOK'
  BY <1>0, <1>3, AcceptType, TypePartsNext DEF handle_accept_invite, Others
<1>4. ASSUME NEW c \in Chars, NEW d \in Chars, handle_decline_invite(c, d) PROVE TypeOK'
  <2>1. party_of[d] \in Ids /\ CandidateGoes(c, party_of[d], d) /\ Others'
    BY <1>0, <1>4 DEF handle_decline_invite, TypedNow, Typed, Pointer, Others
  <2> QED
    BY <1>0, <2>1, CandidateGoesType, TypePartsNext
<1>5. ASSUME NEW c \in Chars, NEW d \in Chars, handle_remove(c, d) PROVE TypeOK'
  <2>1. party_of[c] \in Ids /\ MemberGoes(d, party_of[c]) /\ Others'
    BY <1>0, <1>5 DEF handle_remove, TypedNow, Typed, Pointer, Others
  <2> QED
    BY <1>0, <2>1, MemberGoesType, TypePartsNext
<1>6. ASSUME NEW c \in Chars, invite_timeout(c) PROVE TypeOK'
  <2>1. Others'
    BY <1>0, <1>6 DEF invite_timeout, Others
  <2>2. CASE candidate_of[c] # None /\ CandidateGoes(c, candidate_of[c],
                                                     party[candidate_of[c]].leader)
    <3>1. candidate_of[c] \in Ids
      BY <1>0, <2>2 DEF TypedNow, Typed, Pointer
    <3> QED
      BY <1>0, <2>1, <2>2, <3>1, CandidateGoesType, TypePartsNext
  <2>3. CASE Keep(party, party_of, [candidate_of EXCEPT ![c] = None], offline_mem_of)
    BY <1>0, <2>1, <2>3, TypePartsNext DEF Keep, TypedNow, Typed, Pointer
  <2> QED
    BY <1>6, <2>2, <2>3 DEF invite_timeout
<1>7. ASSUME NEW c \in Chars, Logon(c) PROVE TypeOK'
  BY <1>0, <1>7, LogonType, TypePartsNext DEF Logon, Others
<1>8. ASSUME NEW c \in Chars, Disconnect(c) \/ Logoff(c) PROVE TypeOK'
  BY <1>0, <1>8, LogoffType, TypePartsNext DEF Disconnect, Logoff, Others
<1>9. ASSUME NEW p \in Refs, DisbandParty(p) PROVE TypeOK'
  <2>1. /\ GoesOn(party[p].leader, FALSE, party, party_of, candidate_of, offline_mem_of)
        /\ Typed(parties, party, party_of, candidate_of, offline_mem_of) /\ Others'
    BY <1>0, <1>9 DEF DisbandParty, GoesOn, TypedNow, Others
  <2> QED
    BY <2>1, GoesOnType, TypePartsNext
<1>10. ASSUME NEW p \in Refs, NEW c \in Chars,
              addmember(p, c) \/ addcandidate(p, c) \/ setleader(p, c)
       PROVE  TypeOK'
  BY <1>0, <1>10, ScriptType, RefsAreParties, TypePartsNext
     DEF addmember, addcandidate, setleader, Others
<1>11. ASSUME NEW p \in Refs, NEW c \in Chars, removemember(p, c) PROVE TypeOK'
  BY <1>0, <1>11, MemberGoesType, RefsAreParties, TypePartsNext DEF removemember, Others
<1>12. ASSUME NEW p \in Refs, NEW c \in Chars, removecandidate(p, c) PROVE TypeOK'
  BY <1>0, <1>12, CandidateGoesType, RefsAreParties, TypePartsNext DEF removecandidate, Others
<1>13. CASE Restart
  BY <1>13, RestartType
<1>14. CASE UNCHANGED vars
  BY <1>14 DEF vars, pointers, TypeOK
<1> QED
  BY <1>1, <1>2, <1>3, <1>4, <1>5, <1>6, <1>7, <1>8, <1>9, <1>10, <1>11, <1>12, <1>13, <1>14
     DEF Next

(* Parties, characters and timeouts keep their types, whatever is misused. *)
THEOREM TypeCorrect == Spec => []TypeOK
  BY InitType, NextType, PTL DEF Spec

-----------------------------------------------------------------------------
(* The inductive invariant, in terms of the parties ps, their records q and *)
(* the pointers po, co and oo, which are those of a step half done as well. *)

MembersFit(ps, q, po) ==
    /\ \A c \in Chars, p \in Ids : po[c] = p <=> p \in ps /\ is_member(q[p], c)
    /\ \A p \in Ids : IsInjective(q[p].members)

CandidatesFit(ps, q, co) ==
    \A c \in Chars, p \in Ids : co[c] = p <=> p \in ps /\ c \in q[p].candidates

OfflineFit(ps, q, oo) ==
    \A c \in Chars, p \in Ids : oo[c] = p <=> p \in ps /\ c \in q[p].offline

Single(po, co, oo) ==
    \A c \in Chars : /\ po[c] # None => co[c] = None /\ oo[c] = None
                     /\ co[c] # None => oo[c] = None

Fit(ps, q, po, co, oo) == /\ MembersFit(ps, q, po) /\ CandidatesFit(ps, q, co)
                          /\ OfflineFit(ps, q, oo) /\ Single(po, co, oo)

FitNow == Fit(parties, party, party_of, candidate_of, offline_mem_of)

Good(r) == /\ is_member(r, r.leader)
           /\ IsFiniteSet(r.candidates)
           /\ Len(r.members) + Cardinality(r.candidates) > 1
           /\ Len(r.members) + Cardinality(r.candidates) <= cfg.max

AllGood == \A p \in parties : Good(party[p])

\* Who is playing is not expected back: the lead of a party that he founds then
\* is his only role.
ExpectedIsAway == \A c \in Chars : offline_mem_of[c] # None => presence[c] # "playing"

IInv == TypeOK /\ FitNow /\ AllGood /\ InvitedIsTimed /\ ExpectedIsAway

LEMMA NoneIsNoParty == \A p \in Ids : p # None
BY PartyAssumption
LEMMA LenOfMembers ==
    ASSUME NEW r \in Records, NEW c, is_member(r, c)
    PROVE  Len(r.members) \in Nat /\ Len(r.members) >= 1
<1>1. r.members \in Seq(Chars)
  BY DEF Records
<1> QED
  BY <1>1 DEF is_member, ToSet
LEMMA DisbandFits ==
    ASSUME NEW q, NEW po, NEW co, NEW oo, Typed(parties, q, po, co, oo),
           Fit(parties, q, po, co, oo), NEW p \in parties, disband(p, q, po, co, oo)
    PROVE  /\ parties' = parties \ {p}
           /\ \A p2 \in Ids \ {p} : party'[p2] = q[p2]
           /\ FitNow'
           /\ \A c \in Chars : /\ candidate_of'[c] \in {None, co[c]}
                               /\ offline_mem_of'[c] \in {None, oo[c]}
<1>1. p \in Ids /\ q \in [Ids -> Records] /\ p # None
  BY NoneIsNoParty DEF Typed
<1>2. /\ party'[p].members = << >>
      /\ party'[p].candidates = {} /\ party'[p].offline = {}
      /\ \A p2 \in Ids \ {p} : party'[p2] = q[p2]
  BY <1>1 DEF disband, Records
<1>3. parties' = parties \ {p}
  BY DEF disband
<1>4. \A c \in Chars : /\ party_of'[c] = IF is_member(q[p], c) THEN None ELSE po[c]
                       /\ candidate_of'[c] = IF c \in q[p].candidates THEN None ELSE co[c]
                       /\ offline_mem_of'[c] = IF c \in q[p].offline THEN None ELSE oo[c]
  BY DEF disband
<1>5. MembersFit(parties', party', party_of')
  <2>1. ASSUME NEW c \in Chars, NEW p2 \in Ids
        PROVE  party_of'[c] = p2 <=> p2 \in parties' /\ is_member(party'[p2], c)
    <3>1. CASE p2 = p
      BY <1>1, <1>3, <1>4, <3>1 DEF Fit, MembersFit
    <3>2. CASE p2 # p
      <4>1. po[c] = p2 <=> p2 \in parties /\ is_member(q[p2], c)
        BY DEF Fit, MembersFit
      <4>2. po[c] = p <=> is_member(q[p], c)
        BY <1>1 DEF Fit, MembersFit
      <4> QED
        BY <1>2, <1>3, <1>4, <3>2, <4>1, <4>2, NoneIsNoParty
    <3> QED
      BY <3>1, <3>2
  <2>2. ASSUME NEW p2 \in Ids PROVE IsInjective(party'[p2].members)
    <3>1. IsInjective(<< >>)
      BY DEF IsInjective
    <3> QED
      BY <1>2, <3>1 DEF Fit, MembersFit
  <2> QED
    BY <2>1, <2>2 DEF MembersFit
<1>6. CandidatesFit(parties', party', candidate_of')
  <2> SUFFICES ASSUME NEW c \in Chars, NEW p2 \in Ids
               PROVE  candidate_of'[c] = p2 <=> p2 \in parties' /\ c \in party'[p2].candidates
    BY DEF CandidatesFit
  <2>1. co[c] = p2 <=> p2 \in parties /\ c \in q[p2].candidates
    BY DEF Fit, CandidatesFit
  <2>2. co[c] = p <=> c \in q[p].candidates
    BY <1>1 DEF Fit, CandidatesFit
  <2> QED
    BY <1>2, <1>3, <1>4, <2>1, <2>2, NoneIsNoParty
<1>7. OfflineFit(parties', party', offline_mem_of')
  <2> SUFFICES ASSUME NEW c \in Chars, NEW p2 \in Ids
               PROVE  offline_mem_of'[c] = p2 <=> p2 \in parties' /\ c \in party'[p2].offline
    BY DEF OfflineFit
  <2>1. oo[c] = p2 <=> p2 \in parties /\ c \in q[p2].offline
    BY DEF Fit, OfflineFit
  <2>2. oo[c] = p <=> c \in q[p].offline
    BY <1>1 DEF Fit, OfflineFit
  <2> QED
    BY <1>2, <1>3, <1>4, <2>1, <2>2, NoneIsNoParty
<1>8. Single(party_of', candidate_of', offline_mem_of')
  BY <1>4 DEF Fit, Single
<1>9. FitNow'
  BY <1>5, <1>6, <1>7, <1>8 DEF Fit, FitNow
<1> QED
  BY <1>2, <1>3, <1>4, <1>9
LEMMA GoesOnFits ==
    ASSUME FitNow, AllGood, TypedNow, NEW p \in parties,
           NEW l \in Chars, NEW stays \in BOOLEAN, NEW q, NEW po, NEW co, NEW oo,
           Typed(parties, q, po, co, oo), Fit(parties, q, po, co, oo),
           \A p2 \in parties \ {p} : q[p2] = party[p2],
           stays => Good(q[p]),
           ~stays => q[p].leader = l /\ party_of[l] = p,
           GoesOn(l, stays, q, po, co, oo)
    PROVE  /\ FitNow'
           /\ \A p2 \in parties' : Good(party'[p2])
           /\ \A c \in Chars : /\ candidate_of'[c] \in {None, co[c]}
                               /\ offline_mem_of'[c] \in {None, oo[c]}
           /\ \A p2 \in parties \ parties' : p2 = p /\ ~stays
<1>1. CASE stays
  <2>1. /\ party' = q /\ parties' = parties
        /\ party_of' = po /\ candidate_of' = co /\ offline_mem_of' = oo
    BY <1>1 DEF GoesOn, Keep
  <2>2. FitNow'
    BY <2>1 DEF FitNow
  <2>3. \A p2 \in parties' : Good(party'[p2])
    BY <1>1, <2>1 DEF AllGood
  <2> QED
    BY <2>1, <2>2, <2>3
<1>2. CASE ~stays
  <2>1. ASSUME NEW p2 \in parties, q[p2].leader = l
        PROVE  p2 = p
    <3> SUFFICES ASSUME p2 # p PROVE FALSE
      OBVIOUS
    <3>1. is_member(party[p2], l)
      BY <2>1 DEF AllGood, Good
    <3>2. party_of[l] = p2
      BY <3>1 DEF FitNow, Fit, MembersFit, TypedNow, Typed
    <3> QED
      BY <1>2, <3>2
  <2>2. PICK p2 \in parties : q[p2].leader = l /\ disband(p2, q, po, co, oo)
    BY <1>2 DEF GoesOn, disband_party
  <2>3. disband(p, q, po, co, oo)
    BY <2>1, <2>2
  <2>4. /\ parties' = parties \ {p} /\ FitNow'
        /\ \A p3 \in Ids \ {p} : party'[p3] = q[p3]
        /\ \A c \in Chars : /\ candidate_of'[c] \in {None, co[c]}
                            /\ offline_mem_of'[c] \in {None, oo[c]}
    BY <2>3, DisbandFits
  <2>5. \A p3 \in parties' : Good(party'[p3])
    BY <2>4 DEF AllGood, TypedNow, Typed
  <2>6. \A p3 \in parties \ parties' : p3 = p /\ ~stays
    BY <1>2, <2>4
  <2> QED
    BY <2>4, <2>5, <2>6
<1> QED
  BY <1>1, <1>2
LEMMA KeepFits ==
    ASSUME FitNow, AllGood, TypedNow, NEW p \in parties, NEW q, NEW po, NEW co, NEW oo,
           Fit(parties, q, po, co, oo),
           \A p2 \in parties \ {p} : q[p2] = party[p2], Good(q[p]), Keep(q, po, co, oo)
    PROVE  FitNow' /\ \A p2 \in parties' : Good(party'[p2])
<1>1. /\ party' = q /\ parties' = parties
      /\ party_of' = po /\ candidate_of' = co /\ offline_mem_of' = oo
  BY DEF Keep
<1>2. FitNow'
  BY <1>1 DEF FitNow
<1>3. \A p2 \in parties' : Good(party'[p2])
  BY <1>1 DEF AllGood
<1> QED
  BY <1>2, <1>3

(* One party changes, or is founded, with a record r and the pointers of the *)
(* characters of S, who have no part in another one.                         *)
LEMMA ChangeFits ==
    ASSUME FitNow, TypedNow, NEW p \in Ids, NEW S \in SUBSET Chars, NEW r \in Records,
           NEW po \in Pointer, NEW co \in Pointer, NEW oo \in Pointer,
           IsInjective(r.members),
           \A d \in Chars \ S :
              /\ po[d] = party_of[d] /\ co[d] = candidate_of[d] /\ oo[d] = offline_mem_of[d]
              /\ is_member(r, d) <=> p \in parties /\ is_member(party[p], d)
              /\ d \in r.candidates <=> p \in parties /\ d \in party[p].candidates
              /\ d \in r.offline <=> p \in parties /\ d \in party[p].offline,
           \A c \in S :
              /\ {party_of[c], candidate_of[c], offline_mem_of[c]} \subseteq {None, p}
              /\ po[c] = IF is_member(r, c) THEN p ELSE None
              /\ co[c] = IF c \in r.candidates THEN p ELSE None
              /\ oo[c] = IF c \in r.offline THEN p ELSE None
              /\ is_member(r, c) => c \notin r.candidates /\ c \notin r.offline
              /\ c \in r.candidates => c \notin r.offline
    PROVE  Fit(parties \cup {p}, [party EXCEPT ![p] = r], po, co, oo)
<1> DEFINE q == [party EXCEPT ![p] = r]
<1>0. q \in [Ids -> Records] /\ q[p] = r /\ \A p2 \in Ids \ {p} : q[p2] = party[p2]
  BY DEF TypedNow, Typed
<1>1. p # None /\ \A p2 \in Ids : p2 # None
  BY NoneIsNoParty
<1> HIDE DEF q
<1>2. ASSUME NEW c \in Chars, NEW p2 \in Ids
      PROVE  po[c] = p2 <=> p2 \in parties \cup {p} /\ is_member(q[p2], c)
  <2>1. party_of[c] = p2 <=> p2 \in parties /\ is_member(party[p2], c)
    BY DEF FitNow, Fit, MembersFit
  <2>2. CASE p2 = p
    BY <1>0, <1>1, <2>1, <2>2
  <2>3. CASE p2 # p
    BY <1>0, <1>1, <2>1, <2>3
  <2> QED
    BY <2>2, <2>3
<1>3. ASSUME NEW c \in Chars, NEW p2 \in Ids
      PROVE  co[c] = p2 <=> p2 \in parties \cup {p} /\ c \in q[p2].candidates
  <2>1. candidate_of[c] = p2 <=> p2 \in parties /\ c \in party[p2].candidates
    BY DEF FitNow, Fit, CandidatesFit
  <2>2. CASE p2 = p
    BY <1>0, <1>1, <2>1, <2>2
  <2>3. CASE p2 # p
    BY <1>0, <1>1, <2>1, <2>3
  <2> QED
    BY <2>2, <2>3
<1>4. ASSUME NEW c \in Chars, NEW p2 \in Ids
      PROVE  oo[c] = p2 <=> p2 \in parties \cup {p} /\ c \in q[p2].offline
  <2>1. offline_mem_of[c] = p2 <=> p2 \in parties /\ c \in party[p2].offline
    BY DEF FitNow, Fit, OfflineFit
  <2>2. CASE p2 = p
    BY <1>0, <1>1, <2>1, <2>2
  <2>3. CASE p2 # p
    BY <1>0, <1>1, <2>1, <2>3
  <2> QED
    BY <2>2, <2>3
<1>5. \A p2 \in Ids : IsInjective(q[p2].members)
  BY <1>0 DEF FitNow, Fit, MembersFit
<1>6. Single(po, co, oo)
  BY DEF FitNow, Fit, Single
<1>7. Fit(parties \cup {p}, q, po, co, oo)
  BY <1>2, <1>3, <1>4, <1>5, <1>6 DEF Fit, MembersFit, CandidatesFit, OfflineFit
<1> QED
  BY <1>7 DEF q
(* The same of one character c and a party that there is.                    *)
LEMMA ChangeOne ==
    ASSUME FitNow, TypedNow, NEW p \in parties, NEW c \in Chars, NEW r \in Records,
           NEW po \in Pointer, NEW co \in Pointer, NEW oo \in Pointer,
           IsInjective(r.members),
           \A d \in Chars \ {c} :
              /\ po[d] = party_of[d] /\ co[d] = candidate_of[d] /\ oo[d] = offline_mem_of[d]
              /\ is_member(r, d) <=> is_member(party[p], d)
              /\ d \in r.candidates <=> d \in party[p].candidates
              /\ d \in r.offline <=> d \in party[p].offline,
           party_of[c] \in {None, p}, candidate_of[c] \in {None, p},
           offline_mem_of[c] \in {None, p},
           po[c] = IF is_member(r, c) THEN p ELSE None,
           co[c] = IF c \in r.candidates THEN p ELSE None,
           oo[c] = IF c \in r.offline THEN p ELSE None,
           is_member(r, c) => c \notin r.candidates /\ c \notin r.offline,
           c \in r.candidates => c \notin r.offline
    PROVE  Fit(parties, [party EXCEPT ![p] = r], po, co, oo)
<1> DEFINE S == {c}
<1>1. S \in SUBSET Chars /\ \A d \in Chars : d \in S <=> d = c
  OBVIOUS
<1>2. p \in Ids /\ parties \cup {p} = parties
  BY DEF TypedNow, Typed
<1> HIDE DEF S
<1>3. \A d \in Chars \ S :
         /\ po[d] = party_of[d] /\ co[d] = candidate_of[d] /\ oo[d] = offline_mem_of[d]
         /\ is_member(r, d) <=> p \in parties /\ is_member(party[p], d)
         /\ d \in r.candidates <=> p \in parties /\ d \in party[p].candidates
         /\ d \in r.offline <=> p \in parties /\ d \in party[p].offline
  BY <1>1
<1>4. \A d \in S :
         /\ {party_of[d], candidate_of[d], offline_mem_of[d]} \subseteq {None, p}
         /\ po[d] = IF is_member(r, d) THEN p ELSE None
         /\ co[d] = IF d \in r.candidates THEN p ELSE None
         /\ oo[d] = IF d \in r.offline THEN p ELSE None
         /\ is_member(r, d) => d \notin r.candidates /\ d \notin r.offline
         /\ d \in r.candidates => d \notin r.offline
  BY <1>1
<1>5. Fit(parties \cup {p}, [party EXCEPT ![p] = r], po, co, oo)
  BY <1>1, <1>2, <1>3, <1>4, ChangeFits
<1> QED
  BY <1>2, <1>5
(* What is known of a party and of those who have a part in it.              *)
LEMMA PartOf ==
    ASSUME FitNow, AllGood, TypedNow, cfg \in Settings, NEW p \in parties
    PROVE  /\ p \in Ids /\ p # None /\ parties \cup {p} = parties
           /\ party[p] \in Records /\ IsInjective(party[p].members)
           /\ party[p].members \in Seq(Chars) /\ Good(party[p])
           /\ party[p].leader \in Chars /\ party_of[party[p].leader] = p
           /\ cfg.max \in Nat
           /\ \A c \in Chars : /\ party_of[c] = p <=> is_member(party[p], c)
                               /\ candidate_of[c] = p <=> c \in party[p].candidates
                               /\ offline_mem_of[c] = p <=> c \in party[p].offline
                               /\ party_of[c] # None => /\ candidate_of[c] = None
                                                        /\ offline_mem_of[c] = None
                               /\ candidate_of[c] # None => offline_mem_of[c] = None
<1>1. p \in Ids /\ p # None /\ party[p] \in Records /\ party[p].members \in Seq(Chars)
  BY NoneIsNoParty DEF TypedNow, Typed, Records
<1>2. /\ Good(party[p]) /\ IsInjective(party[p].members)
      /\ \A c \in Chars : /\ party_of[c] = p <=> is_member(party[p], c)
                          /\ candidate_of[c] = p <=> c \in party[p].candidates
                          /\ offline_mem_of[c] = p <=> c \in party[p].offline
  BY <1>1 DEF AllGood, FitNow, Fit, MembersFit, CandidatesFit, OfflineFit
<1>3. party[p].leader \in Chars
  BY <1>1, <1>2 DEF Good, is_member, ToSet
<1>4. cfg.max \in Nat
  BY PartyAssumption
<1> QED
  BY <1>1, <1>2, <1>3, <1>4 DEF FitNow, Fit, Single, Good
LEMMA WithoutMember ==
    ASSUME NEW r \in Records, NEW c \in Chars, is_member(r, c), IsInjective(r.members)
    PROVE  LET g == remove_member(r, c)
           IN  /\ g \in Records /\ IsInjective(g.members)
               /\ Len(g.members) = Len(r.members) - 1
               /\ \A d : is_member(g, d) <=> is_member(r, d) /\ d # c
               /\ g.leader = r.leader /\ g.candidates = r.candidates
               /\ g.offline = r.offline
<1> DEFINE g == remove_member(r, c)
<1>1. r.members \in Seq(Chars) /\ c \in ToSet(r.members)
  BY DEF Records, is_member
<1>2. /\ g \in Records /\ g.members = RemoveFirst(r.members, c)
      /\ g.leader = r.leader /\ g.candidates = r.candidates /\ g.offline = r.offline
  BY RecordOps DEF remove_member, Records
<1>3. /\ Len(g.members) = Len(r.members) - 1 /\ IsInjective(g.members)
      /\ ToSet(g.members) = ToSet(r.members) \ {c}
  BY <1>1, <1>2, RemoveFirstOne
<1> HIDE DEF g
<1>4. \A d : is_member(g, d) <=> is_member(r, d) /\ d # c
  BY <1>3 DEF is_member
<1> QED
  BY <1>2, <1>3, <1>4 DEF g
LEMMA WithMember ==
    ASSUME NEW r \in Records, NEW c \in Chars, ~is_member(r, c), IsInjective(r.members)
    PROVE  LET g == add_member(r, c)
           IN  /\ g \in Records /\ IsInjective(g.members)
               /\ Len(g.members) = Len(r.members) + 1
               /\ \A d : is_member(g, d) <=> is_member(r, d) \/ d = c
               /\ g.leader = r.leader /\ g.candidates = r.candidates
               /\ g.offline = r.offline
<1> DEFINE g == add_member(r, c)
<1>1. r.members \in Seq(Chars) /\ c \notin ToSet(r.members)
  BY DEF Records, is_member
<1>2. /\ g \in Records /\ g.members = Append(r.members, c)
      /\ g.leader = r.leader /\ g.candidates = r.candidates /\ g.offline = r.offline
  BY RecordOps DEF add_member, Records
<1>3. /\ Len(g.members) = Len(r.members) + 1 /\ IsInjective(g.members)
      /\ ToSet(g.members) = ToSet(r.members) \cup {c}
  BY <1>1, <1>2, AppendOne
<1> HIDE DEF g
<1>4. \A d : is_member(g, d) <=> is_member(r, d) \/ d = c
  BY <1>3 DEF is_member
<1> QED
  BY <1>2, <1>3, <1>4 DEF g
LEMMA WithLeader ==
    ASSUME NEW r \in Records, NEW c \in Chars, is_member(r, c), IsInjective(r.members)
    PROVE  LET g == set_leader(r, c)
           IN  /\ g \in Records /\ IsInjective(g.members)
               /\ Len(g.members) = Len(r.members)
               /\ \A d : is_member(g, d) <=> is_member(r, d)
               /\ g.leader = c /\ g.candidates = r.candidates
               /\ g.offline = r.offline
<1> DEFINE g == set_leader(r, c)
           t == RemoveFirst(r.members, c)
<1>1. r.members \in Seq(Chars) /\ c \in ToSet(r.members)
  BY DEF Records, is_member
<1>2. /\ g \in Records /\ g.members = << c >> \o t
      /\ g.leader = c /\ g.candidates = r.candidates /\ g.offline = r.offline
  BY RecordOps DEF set_leader, Records
<1>3. /\ t \in Seq(Chars) /\ Len(t) = Len(r.members) - 1 /\ IsInjective(t)
      /\ ToSet(t) = ToSet(r.members) \ {c}
  BY <1>1, RemoveFirstOne
<1> HIDE DEF g, t
<1>4. /\ Len(g.members) = Len(t) + 1 /\ ToSet(g.members) = ToSet(t) \cup {c}
      /\ IsInjective(g.members)
  BY <1>2, <1>3, PutFirst
<1>5. Len(g.members) = Len(r.members) /\ ToSet(g.members) = ToSet(r.members)
  BY <1>1, <1>3, <1>4
<1>6. \A d : is_member(g, d) <=> is_member(r, d)
  BY <1>5 DEF is_member
<1> QED
  BY <1>2, <1>4, <1>5, <1>6 DEF g
LEMMA StaysGood ==
    ASSUME NEW r \in Records, is_member(r, r.leader), IsFiniteSet(r.candidates),
           cfg.max \in Nat, Len(r.members) + Cardinality(r.candidates) <= cfg.max,
           test_size(r)
    PROVE  Good(r)
<1>1. Len(r.members) \in Nat /\ Len(r.members) >= 1
  BY LenOfMembers
<1>2. Cardinality(r.candidates) \in Nat
  BY FS_CardinalityType
<1>3. r.candidates # {} => Cardinality(r.candidates) # 0
  BY FS_EmptySet
<1> QED
  BY <1>1, <1>2, <1>3 DEF Good, test_size
LEMMA MemberGoesFits ==
    ASSUME FitNow, AllGood, TypedNow, cfg \in Settings, NEW c \in Chars, NEW p \in parties,
           is_member(party[p], c), MemberGoes(c, p)
    PROVE  /\ FitNow'
           /\ \A p2 \in parties' : Good(party'[p2])
           /\ \A d \in Chars : /\ candidate_of'[d] \in {None, candidate_of[d]}
                               /\ offline_mem_of'[d] \in {None, offline_mem_of[d]}
           /\ \A p2 \in parties \ parties' :
                 p2 = p /\ (c = party[p].leader \/ Len(party[p].members) <= 2)
<1> DEFINE r == remove_member(party[p], c)
           q == [party EXCEPT ![p] = r]
           po == [party_of EXCEPT ![c] = None]
           l == party[p].leader
<1>1. /\ p \in Ids /\ parties \cup {p} = parties /\ party[p] \in Records /\ Good(party[p])
      /\ l \in Chars /\ party_of[l] = p /\ IsInjective(party[p].members) /\ cfg.max \in Nat
      /\ party_of[c] = p /\ c \notin party[p].candidates /\ c \notin party[p].offline
      /\ candidate_of[c] = None /\ offline_mem_of[c] = None
      /\ \A d \in Chars : /\ party_of[d] = p <=> is_member(party[p], d)
                          /\ candidate_of[d] = p <=> d \in party[p].candidates
                          /\ offline_mem_of[d] = p <=> d \in party[p].offline
  BY PartOf
<1>2. /\ r \in Records /\ IsInjective(r.members) /\ Len(r.members) = Len(party[p].members) - 1
      /\ \A d : is_member(r, d) <=> is_member(party[p], d) /\ d # c
      /\ r.leader = l /\ r.candidates = party[p].candidates /\ r.offline = party[p].offline
  BY <1>1, WithoutMember
<1>3. GoesOn(r.leader, send_remove_member(r, c), q, po, candidate_of, offline_mem_of)
  BY DEF MemberGoes
<1>4. q \in [Ids -> Records] /\ q[p] = r /\ \A p2 \in parties \ {p} : q[p2] = party[p2]
  BY <1>1, <1>2 DEF TypedNow, Typed
<1>5. po \in Pointer /\ po[c] = None /\ \A d \in Chars \ {c} : po[d] = party_of[d]
  BY DEF TypedNow, Typed, Pointer
<1>6. Typed(parties, q, po, candidate_of, offline_mem_of)
  BY <1>4, <1>5 DEF TypedNow, Typed
<1> HIDE DEF r, po
<1>7. Fit(parties, q, po, candidate_of, offline_mem_of)
  <2>1. candidate_of \in Pointer /\ offline_mem_of \in Pointer
    BY DEF TypedNow, Typed
  <2> QED
    BY <1>1, <1>2, <1>5, <2>1, ChangeOne
<1> HIDE DEF q
<1>8. send_remove_member(r, c) => Good(q[p])
  <2> SUFFICES ASSUME send_remove_member(r, c) PROVE Good(r)
    BY <1>4
  <2>1. c # l /\ test_size(r)
    BY <1>2 DEF send_remove_member
  <2>2. /\ is_member(r, r.leader) /\ IsFiniteSet(r.candidates)
        /\ Len(r.members) + Cardinality(r.candidates) <= cfg.max
    <3>1. Len(party[p].members) \in Nat
      BY <1>1, LenOfMembers
    <3>2. Cardinality(r.candidates) \in Nat
      BY <1>1, <1>2, FS_CardinalityType DEF Good
    <3> QED
      BY <1>1, <1>2, <2>1, <3>1, <3>2 DEF Good
  <2> QED
    BY <1>1, <1>2, <2>1, <2>2, StaysGood
<1>9. q[p].leader = l
  BY <1>2, <1>4
<1>10. GoesOn(l, send_remove_member(r, c), q, po, candidate_of, offline_mem_of)
  BY <1>2, <1>3
<1>11. send_remove_member(r, c) \in BOOLEAN
  BY DEF send_remove_member, test_size
<1>12. ~send_remove_member(r, c) => c = l \/ Len(party[p].members) <= 2
  <2>1. Len(party[p].members) \in Nat
    BY <1>1, LenOfMembers
  <2> QED
    BY <1>2, <2>1 DEF send_remove_member, test_size
<1> HIDE DEF l
<1>13. /\ FitNow'
       /\ \A p2 \in parties' : Good(party'[p2])
       /\ \A d \in Chars : /\ candidate_of'[d] \in {None, candidate_of[d]}
                           /\ offline_mem_of'[d] \in {None, offline_mem_of[d]}
       /\ \A p2 \in parties \ parties' : p2 = p /\ ~send_remove_member(r, c)
  BY <1>1, <1>4, <1>6, <1>7, <1>8, <1>9, <1>10, <1>11, GoesOnFits
<1> QED
  BY <1>12, <1>13 DEF l
LEMMA FewerCandidates ==
    ASSUME NEW r \in Records, NEW c \in Chars, Good(r), c \in r.candidates, cfg.max \in Nat
    PROVE  LET g == [r EXCEPT !.candidates = @ \ {c}]
           IN  /\ g \in Records /\ g.members = r.members /\ g.leader = r.leader
               /\ g.offline = r.offline /\ g.candidates = r.candidates \ {c}
               /\ \A d : is_member(g, d) <=> is_member(r, d)
               /\ IsFiniteSet(g.candidates)
               /\ Cardinality(g.candidates) = Cardinality(r.candidates) - 1
               /\ Len(g.members) \in Nat /\ Cardinality(g.candidates) \in Nat
               /\ Len(g.members) + Cardinality(g.candidates) < cfg.max
<1> DEFINE g == [r EXCEPT !.candidates = @ \ {c}]
<1>1. /\ g \in Records /\ g.members = r.members /\ g.leader = r.leader
      /\ g.offline = r.offline /\ g.candidates = r.candidates \ {c}
  BY DEF Records
<1> HIDE DEF g
<1>2. /\ IsFiniteSet(g.candidates)
      /\ Cardinality(g.candidates) = Cardinality(r.candidates) - 1
  <2>1. IsFiniteSet(r.candidates)
    BY DEF Good
  <2> QED
    <3> DEFINE T == r.candidates
    <3> HIDE DEF T
    <3>1. IsFiniteSet(T \ {c}) /\ Cardinality(T \ {c}) = Cardinality(T) - 1
      BY <2>1, FS_RemoveElement DEF T
    <3> QED
      BY <1>1, <3>1 DEF T
<1>3. Cardinality(r.candidates) \in Nat /\ Cardinality(g.candidates) \in Nat
  BY <1>2, FS_CardinalityType DEF Good
<1>4. Len(g.members) \in Nat
  BY <1>1, LenOfMembers DEF Good
<1>5. Len(g.members) + Cardinality(g.candidates) < cfg.max
  BY <1>1, <1>2, <1>3, <1>4 DEF Good
<1>6. \A d : is_member(g, d) <=> is_member(r, d)
  BY <1>1 DEF is_member
<1> QED
  BY <1>1, <1>2, <1>3, <1>4, <1>5, <1>6 DEF g
LEMMA CandidateGoesFits ==
    ASSUME FitNow, AllGood, TypedNow, cfg \in Settings, NEW c \in Chars, NEW p \in parties,
           NEW l \in Chars, c \in party[p].candidates, party_of[l] = p, CandidateGoes(c, p, l)
    PROVE  /\ FitNow'
           /\ \A p2 \in parties' : Good(party'[p2])
           /\ candidate_of'[c] = None
           /\ \A d \in Chars : /\ candidate_of'[d] \in {None, candidate_of[d]}
                               /\ offline_mem_of'[d] \in {None, offline_mem_of[d]}
           /\ \A p2 \in parties \ parties' : p2 = p /\ Len(party[p].members) <= 1
<1> DEFINE r == [party[p] EXCEPT !.candidates = @ \ {c}]
           q == [party EXCEPT ![p] = r]
           co == [candidate_of EXCEPT ![c] = None]
<1>1. /\ p \in Ids /\ party[p] \in Records /\ Good(party[p]) /\ party[p].leader \in Chars
      /\ party_of[party[p].leader] = p /\ IsInjective(party[p].members) /\ cfg.max \in Nat
      /\ candidate_of[c] = p /\ p # None
      /\ \A d \in Chars : /\ party_of[d] = p <=> is_member(party[p], d)
                          /\ candidate_of[d] = p <=> d \in party[p].candidates
                          /\ offline_mem_of[d] = p <=> d \in party[p].offline
                          /\ party_of[d] # None => candidate_of[d] = None
                          /\ candidate_of[d] # None => offline_mem_of[d] = None
  BY PartOf
<1>2. /\ r \in Records /\ r.members = party[p].members /\ r.leader = party[p].leader
      /\ r.offline = party[p].offline /\ r.candidates = party[p].candidates \ {c}
      /\ \A d : is_member(r, d) <=> is_member(party[p], d)
      /\ IsFiniteSet(r.candidates) /\ Cardinality(r.candidates) \in Nat
      /\ Len(r.members) \in Nat
      /\ Len(r.members) + Cardinality(r.candidates) < cfg.max
  BY <1>1, FewerCandidates
<1>3. GoesOn(l, test_size(r), q, party_of, co, offline_mem_of)
  BY DEF CandidateGoes
<1>4. q \in [Ids -> Records] /\ q[p] = r /\ \A p2 \in parties \ {p} : q[p2] = party[p2]
  BY <1>1, <1>2 DEF TypedNow, Typed
<1>5. co \in Pointer /\ co[c] = None /\ \A d \in Chars \ {c} : co[d] = candidate_of[d]
  BY DEF TypedNow, Typed, Pointer
<1>6. Typed(parties, q, party_of, co, offline_mem_of)
  BY <1>4, <1>5 DEF TypedNow, Typed
<1>7. party_of \in Pointer /\ offline_mem_of \in Pointer
  BY DEF TypedNow, Typed
<1> HIDE DEF r, co
<1>8. Fit(parties, q, party_of, co, offline_mem_of)
  BY <1>1, <1>2, <1>5, <1>7, ChangeOne
<1> HIDE DEF q
<1>9. test_size(r) => Good(q[p])
  <2>1. is_member(r, r.leader)
    BY <1>1, <1>2 DEF Good
  <2>2. Len(r.members) + Cardinality(r.candidates) <= cfg.max
    BY <1>1, <1>2
  <2> QED
    BY <1>1, <1>2, <1>4, <2>1, <2>2, StaysGood
<1>10. ~test_size(r) => q[p].leader = l /\ party_of[l] = p
  <2> SUFFICES ASSUME ~test_size(r) PROVE r.leader = l
    BY <1>4
  <2>1. Len(r.members) <= 1
    BY <1>2 DEF test_size
  <2>2. is_member(r, l) /\ is_member(r, r.leader)
    BY <1>1, <1>2 DEF Good
  <2> QED
    BY <1>2, <2>1, <2>2 DEF is_member, ToSet, Records
<1>11. test_size(r) \in BOOLEAN
  BY DEF test_size
<1>12. /\ FitNow'
       /\ \A p2 \in parties' : Good(party'[p2])
       /\ \A d \in Chars : /\ candidate_of'[d] \in {None, co[d]}
                           /\ offline_mem_of'[d] \in {None, offline_mem_of[d]}
       /\ \A p2 \in parties \ parties' : p2 = p /\ ~test_size(r)
  BY <1>3, <1>4, <1>6, <1>8, <1>9, <1>10, <1>11, GoesOnFits
<1>13. ~test_size(r) => Len(party[p].members) <= 1
  BY <1>2 DEF test_size
<1> QED
  BY <1>5, <1>12, <1>13
LEMMA MoreCandidates ==
    ASSUME NEW r \in Records, NEW c \in Chars, c \notin r.candidates, cfg.max \in Nat,
           is_member(r, r.leader), IsFiniteSet(r.candidates), can_add(r)
    PROVE  LET g == [r EXCEPT !.candidates = @ \cup {c}]
           IN  /\ g \in Records /\ g.members = r.members
               /\ g.offline = r.offline /\ g.candidates = r.candidates \cup {c}
               /\ \A d : is_member(g, d) <=> is_member(r, d)
               /\ Good(g)
<1> DEFINE g == [r EXCEPT !.candidates = @ \cup {c}]
           T == r.candidates
<1>1. /\ g \in Records /\ g.members = r.members /\ g.leader = r.leader
      /\ g.offline = r.offline /\ g.candidates = T \cup {c}
  BY DEF Records
<1> HIDE DEF g
<1>2. /\ IsFiniteSet(T \cup {c}) /\ Cardinality(T \cup {c}) = Cardinality(T) + 1
      /\ Cardinality(T) \in Nat
  <2> HIDE DEF T
  <2>1. c \notin T /\ IsFiniteSet(T)
    BY DEF T
  <2> QED
    BY <2>1, FS_AddElement, FS_CardinalityType
<1>3. Len(r.members) \in Nat /\ Len(r.members) >= 1
  BY LenOfMembers
<1>4. \A d : is_member(g, d) <=> is_member(r, d)
  BY <1>1 DEF is_member
<1>5. Good(g)
  BY <1>1, <1>2, <1>3, <1>4 DEF Good, can_add
<1> QED
  BY <1>1, <1>4, <1>5 DEF g
LEMMA MoreMembers ==
    ASSUME NEW r \in Records, NEW c \in Chars, ~is_member(r, c), IsInjective(r.members),
           cfg.max \in Nat, is_member(r, r.leader), IsFiniteSet(r.candidates), can_add(r)
    PROVE  Good(add_member(r, c))
<1> DEFINE g == add_member(r, c)
<1>1. /\ g \in Records /\ Len(g.members) = Len(r.members) + 1
      /\ \A d : is_member(g, d) <=> is_member(r, d) \/ d = c
      /\ g.leader = r.leader /\ g.candidates = r.candidates
  BY WithMember
<1> HIDE DEF g
<1>2. Len(r.members) \in Nat /\ Len(r.members) >= 1
  BY LenOfMembers
<1>3. Cardinality(r.candidates) \in Nat
  BY FS_CardinalityType
<1>4. Good(g)
  BY <1>1, <1>2, <1>3 DEF Good, can_add
<1> QED
  BY <1>4 DEF g
LEMMA AcceptFits ==
    ASSUME FitNow, AllGood, TypedNow, cfg \in Settings, NEW c \in Chars, NEW l \in Chars,
           handle_accept_invite(c, l)
    PROVE  /\ FitNow'
           /\ \A p2 \in parties' : Good(party'[p2])
<1> DEFINE p == party_of[l]
           r == [party[p] EXCEPT !.candidates = @ \ {c}]
           g == add_member(r, c)
           po == [party_of EXCEPT ![c] = p]
           co == [candidate_of EXCEPT ![c] = None]
<1>1. p \in Ids /\ p \in parties /\ c \in party[p].candidates
  BY DEF handle_accept_invite, FitNow, Fit, MembersFit, TypedNow, Typed, Pointer
<1>2. /\ party[p] \in Records /\ Good(party[p]) /\ IsInjective(party[p].members)
      /\ cfg.max \in Nat /\ candidate_of[c] = p /\ p # None
      /\ offline_mem_of[c] = None /\ party_of[c] = None
      /\ \A d \in Chars : /\ party_of[d] = p <=> is_member(party[p], d)
                          /\ candidate_of[d] = p <=> d \in party[p].candidates
                          /\ offline_mem_of[d] = p <=> d \in party[p].offline
  <2> HIDE DEF p
  <2> QED
    BY <1>1, PartOf
<1>3. /\ r \in Records /\ r.members = party[p].members /\ r.leader = party[p].leader
      /\ r.offline = party[p].offline /\ r.candidates = party[p].candidates \ {c}
      /\ \A d : is_member(r, d) <=> is_member(party[p], d)
      /\ IsFiniteSet(r.candidates)
      /\ Len(r.members) + Cardinality(r.candidates) < cfg.max
  <2> HIDE DEF p
  <2> QED
    BY <1>1, <1>2, FewerCandidates
<1>4. can_add(r)
  BY <1>3 DEF can_add
<1>5. Keep([party EXCEPT ![p] = g], po, co, offline_mem_of)
  BY <1>4 DEF handle_accept_invite
<1> HIDE DEF r
<1>6. ~is_member(r, c) /\ IsInjective(r.members) /\ is_member(r, r.leader)
  BY <1>2, <1>3 DEF Good
<1>7. /\ g \in Records /\ IsInjective(g.members)
      /\ \A d : is_member(g, d) <=> is_member(r, d) \/ d = c
      /\ g.candidates = r.candidates /\ g.offline = r.offline
  BY <1>3, <1>6, WithMember
<1>8. Good(g)
  BY <1>2, <1>3, <1>4, <1>6, MoreMembers
<1> HIDE DEF g, p
<1>9. /\ po \in Pointer /\ po[c] = p /\ \A d \in Chars \ {c} : po[d] = party_of[d]
      /\ co \in Pointer /\ co[c] = None /\ \A d \in Chars \ {c} : co[d] = candidate_of[d]
      /\ offline_mem_of \in Pointer
  BY <1>1 DEF TypedNow, Typed, Pointer
<1> DEFINE q == [party EXCEPT ![p] = g]
<1>10. q[p] = g /\ \A p2 \in parties \ {p} : q[p2] = party[p2]
  BY <1>1, <1>7 DEF TypedNow, Typed
<1> HIDE DEF po, co
<1>11. Fit(parties, q, po, co, offline_mem_of)
  <2>1. /\ c \notin g.candidates /\ c \notin g.offline /\ is_member(g, c)
    BY <1>2, <1>3, <1>7
  <2>2. \A d \in Chars \ {c} :
           /\ is_member(g, d) <=> is_member(party[p], d)
           /\ d \in g.candidates <=> d \in party[p].candidates
           /\ d \in g.offline <=> d \in party[p].offline
    BY <1>3, <1>7
  <2> QED
    BY <1>1, <1>2, <1>7, <1>9, <2>1, <2>2, ChangeOne
<1> HIDE DEF q
<1>12. Keep(q, po, co, offline_mem_of)
  BY <1>5 DEF q
<1> QED
  BY <1>1, <1>8, <1>10, <1>11, <1>12, KeepFits
LEMMA AddMemberFits ==
    ASSUME FitNow, AllGood, TypedNow, cfg \in Settings, NEW c \in Chars, NEW p \in parties,
           addmember(p, c)
    PROVE  /\ FitNow'
           /\ \A p2 \in parties' : Good(party'[p2])
<1> DEFINE g == add_member(party[p], c)
           q == [party EXCEPT ![p] = g]
           po == [party_of EXCEPT ![c] = p]
<1>1. /\ p \in Ids /\ party[p] \in Records /\ Good(party[p]) /\ IsInjective(party[p].members)
      /\ cfg.max \in Nat /\ p # None
      /\ \A d \in Chars : /\ party_of[d] = p <=> is_member(party[p], d)
                          /\ candidate_of[d] = p <=> d \in party[p].candidates
                          /\ offline_mem_of[d] = p <=> d \in party[p].offline
  BY PartOf
<1>2. /\ party_of[c] = None /\ candidate_of[c] = None /\ offline_mem_of[c] = None
      /\ can_add(party[p]) /\ Keep(q, po, candidate_of, offline_mem_of)
  BY DEF addmember, Unattached
<1>3. /\ g \in Records /\ IsInjective(g.members)
      /\ \A d : is_member(g, d) <=> is_member(party[p], d) \/ d = c
      /\ g.candidates = party[p].candidates /\ g.offline = party[p].offline
  BY <1>1, <1>2, WithMember
<1>4. Good(g)
  BY <1>1, <1>2, MoreMembers DEF Good
<1> HIDE DEF g
<1>5. q[p] = g /\ \A p2 \in parties \ {p} : q[p2] = party[p2]
  BY <1>1, <1>3 DEF TypedNow, Typed
<1>6. /\ po \in Pointer /\ po[c] = p /\ \A d \in Chars \ {c} : po[d] = party_of[d]
      /\ candidate_of \in Pointer /\ offline_mem_of \in Pointer
  BY <1>1 DEF TypedNow, Typed, Pointer
<1> HIDE DEF po
<1>7. Fit(parties, q, po, candidate_of, offline_mem_of)
  BY <1>1, <1>2, <1>3, <1>6, ChangeOne
<1> HIDE DEF q
<1> QED
  BY <1>2, <1>4, <1>5, <1>7, KeepFits
LEMMA AddCandidateFits ==
    ASSUME FitNow, AllGood, TypedNow, cfg \in Settings, NEW c \in Chars, NEW p \in parties,
           addcandidate(p, c)
    PROVE  /\ FitNow'
           /\ \A p2 \in parties' : Good(party'[p2])
<1> DEFINE g == [party[p] EXCEPT !.candidates = @ \cup {c}]
           q == [party EXCEPT ![p] = g]
           co == [candidate_of EXCEPT ![c] = p]
<1>1. /\ p \in Ids /\ party[p] \in Records /\ Good(party[p]) /\ IsInjective(party[p].members)
      /\ cfg.max \in Nat /\ p # None
      /\ \A d \in Chars : /\ party_of[d] = p <=> is_member(party[p], d)
                          /\ candidate_of[d] = p <=> d \in party[p].candidates
                          /\ offline_mem_of[d] = p <=> d \in party[p].offline
  BY PartOf
<1>2. /\ party_of[c] = None /\ candidate_of[c] = None /\ offline_mem_of[c] = None
      /\ can_add(party[p])
      /\ Keep([party EXCEPT ![p].candidates = @ \cup {c}], party_of, co, offline_mem_of)
  BY DEF addcandidate, Unattached
<1>3. /\ g \in Records /\ g.members = party[p].members /\ Good(g)
      /\ \A d : is_member(g, d) <=> is_member(party[p], d)
      /\ g.candidates = party[p].candidates \cup {c} /\ g.offline = party[p].offline
  BY <1>1, <1>2, MoreCandidates DEF Good
<1>4. Keep(q, party_of, co, offline_mem_of)
  BY <1>1, <1>2 DEF TypedNow, Typed
<1> HIDE DEF g
<1>5. q[p] = g /\ \A p2 \in parties \ {p} : q[p2] = party[p2]
  BY <1>1, <1>3 DEF TypedNow, Typed
<1>6. /\ co \in Pointer /\ co[c] = p /\ \A d \in Chars \ {c} : co[d] = candidate_of[d]
      /\ party_of \in Pointer /\ offline_mem_of \in Pointer
  BY <1>1 DEF TypedNow, Typed, Pointer
<1> HIDE DEF co
<1>7. Fit(parties, q, party_of, co, offline_mem_of)
  BY <1>1, <1>2, <1>3, <1>6, ChangeOne
<1> HIDE DEF q
<1> QED
  BY <1>3, <1>4, <1>5, <1>7, KeepFits
LEMMA SetLeaderFits ==
    ASSUME FitNow, AllGood, TypedNow, cfg \in Settings, NEW c \in Chars, NEW p \in parties,
           setleader(p, c)
    PROVE  /\ FitNow'
           /\ \A p2 \in parties' : Good(party'[p2])
<1> DEFINE g == set_leader(party[p], c)
           q == [party EXCEPT ![p] = g]
<1>1. /\ p \in Ids /\ party[p] \in Records /\ Good(party[p]) /\ IsInjective(party[p].members)
      /\ is_member(party[p], c)
      /\ \A d \in Chars : /\ party_of[d] = p <=> is_member(party[p], d)
                          /\ candidate_of[d] = p <=> d \in party[p].candidates
                          /\ offline_mem_of[d] = p <=> d \in party[p].offline
                          /\ party_of[d] # None => /\ candidate_of[d] = None
                                                   /\ offline_mem_of[d] = None
  BY PartOf DEF setleader
<1>2. /\ g \in Records /\ IsInjective(g.members)
      /\ Len(g.members) = Len(party[p].members)
      /\ \A d : is_member(g, d) <=> is_member(party[p], d)
      /\ g.leader = c /\ g.candidates = party[p].candidates
      /\ g.offline = party[p].offline
  BY <1>1, WithLeader
<1>3. Keep(q, party_of, candidate_of, offline_mem_of)
  BY DEF setleader, Keep, pointers
<1> HIDE DEF g
<1>4. Good(g)
  BY <1>1, <1>2 DEF Good
<1>5. q[p] = g /\ \A p2 \in parties \ {p} : q[p2] = party[p2]
  BY <1>1, <1>2 DEF TypedNow, Typed
<1>6. candidate_of \in Pointer /\ party_of \in Pointer /\ offline_mem_of \in Pointer
  BY DEF TypedNow, Typed
<1>7. Fit(parties, q, party_of, candidate_of, offline_mem_of)
  <2>1. p # None
    BY <1>1, NoneIsNoParty
  <2>2. party_of[c] = p /\ candidate_of[c] = None /\ offline_mem_of[c] = None
    BY <1>1, <2>1
  <2> QED
    BY <1>1, <1>2, <1>6, <2>1, <2>2, ChangeOne
<1> HIDE DEF q
<1> QED
  BY <1>3, <1>4, <1>5, <1>7, KeepFits
LEMMA Founded ==
    ASSUME NEW l \in Chars
    PROVE  LET r == NewParty(l)
           IN  /\ r \in Records /\ IsInjective(r.members) /\ Len(r.members) = 1
               /\ \A d : is_member(r, d) <=> d = l
               /\ r.leader = l /\ r.candidates = {} /\ r.offline = {}
               /\ IsFiniteSet(r.candidates) /\ Cardinality(r.candidates) = 0
<1>1. << l >> \in Seq(Chars) /\ Len(<< l >>) = 1 /\ IsInjective(<< l >>)
  BY DEF IsInjective
<1>2. \A d : d \in ToSet(<< l >>) <=> d = l
  BY DEF ToSet
<1> QED
  BY <1>1, <1>2, FS_EmptySet DEF NewParty, Records, is_member
LEMMA FoundFits ==
    ASSUME FitNow, AllGood, TypedNow, NEW l \in Chars, NEW c \in Chars, l # c,
           party_of[l] = None, candidate_of[l] = None, offline_mem_of[l] = None,
           party_of[c] = None, candidate_of[c] = None, offline_mem_of[c] = None,
           NEW p \in Ids \ parties, NEW g \in Records, IsInjective(g.members), Good(g),
           \A d \in Chars \ {l, c} : ~is_member(g, d) /\ d \notin g.candidates,
           is_member(g, l), l \notin g.candidates, g.offline = {},
           is_member(g, c) <=> c \notin g.candidates,
           parties' = parties \cup {p}, party' = [party EXCEPT ![p] = g],
           party_of' = IF is_member(g, c) THEN [party_of EXCEPT ![l] = p, ![c] = p]
                                          ELSE [party_of EXCEPT ![l] = p],
           candidate_of' = IF is_member(g, c) THEN candidate_of
                                              ELSE [candidate_of EXCEPT ![c] = p],
           offline_mem_of' = offline_mem_of
    PROVE  /\ FitNow'
           /\ \A p2 \in parties' : Good(party'[p2])
<1>1. p # None
  BY NoneIsNoParty
<1>2. party_of' \in Pointer /\ candidate_of' \in Pointer /\ offline_mem_of' \in Pointer
  BY DEF TypedNow, Typed, Pointer
<1> DEFINE S == {l, c}
<1>3. S \in SUBSET Chars /\ \A d \in Chars : d \in S <=> d = l \/ d = c
  OBVIOUS
<1> HIDE DEF S
<1>4. \A d \in Chars \ S :
         /\ party_of'[d] = party_of[d] /\ candidate_of'[d] = candidate_of[d]
         /\ offline_mem_of'[d] = offline_mem_of[d]
  BY <1>3 DEF TypedNow, Typed, Pointer
<1>5. \A d \in Chars \ S :
         /\ is_member(g, d) <=> p \in parties /\ is_member(party[p], d)
         /\ d \in g.candidates <=> p \in parties /\ d \in party[p].candidates
         /\ d \in g.offline <=> p \in parties /\ d \in party[p].offline
  BY <1>3
<1>6. \A d \in S :
         /\ {party_of[d], candidate_of[d], offline_mem_of[d]} \subseteq {None, p}
         /\ party_of'[d] = IF is_member(g, d) THEN p ELSE None
         /\ candidate_of'[d] = IF d \in g.candidates THEN p ELSE None
         /\ offline_mem_of'[d] = IF d \in g.offline THEN p ELSE None
         /\ is_member(g, d) => d \notin g.candidates /\ d \notin g.offline
         /\ d \in g.candidates => d \notin g.offline
  BY <1>3 DEF TypedNow, Typed, Pointer
<1>7. Fit(parties \cup {p}, [party EXCEPT ![p] = g], party_of', candidate_of', offline_mem_of')
  <2> DEFINE po == party_of'
             co == candidate_of'
             oo == offline_mem_of'
  <2>1. po \in Pointer /\ co \in Pointer /\ oo \in Pointer
    BY <1>2
  <2>2. \A d \in Chars \ S :
           /\ po[d] = party_of[d] /\ co[d] = candidate_of[d] /\ oo[d] = offline_mem_of[d]
           /\ is_member(g, d) <=> p \in parties /\ is_member(party[p], d)
           /\ d \in g.candidates <=> p \in parties /\ d \in party[p].candidates
           /\ d \in g.offline <=> p \in parties /\ d \in party[p].offline
    BY <1>4, <1>5
  <2>3. \A d \in S :
           /\ {party_of[d], candidate_of[d], offline_mem_of[d]} \subseteq {None, p}
           /\ po[d] = IF is_member(g, d) THEN p ELSE None
           /\ co[d] = IF d \in g.candidates THEN p ELSE None
           /\ oo[d] = IF d \in g.offline THEN p ELSE None
           /\ is_member(g, d) => d \notin g.candidates /\ d \notin g.offline
           /\ d \in g.candidates => d \notin g.offline
    BY <1>6
  <2> HIDE DEF po, co, oo
  <2>4. Fit(parties \cup {p}, [party EXCEPT ![p] = g], po, co, oo)
    BY <1>3, <2>1, <2>2, <2>3, ChangeFits
  <2> QED
    BY <2>4 DEF po, co, oo
<1>8. FitNow'
  BY <1>7 DEF FitNow
<1>9. \A p2 \in parties' : Good(party'[p2])
  BY DEF AllGood, TypedNow, Typed
<1> QED
  BY <1>8, <1>9
LEMMA CreateFits ==
    ASSUME FitNow, AllGood, TypedNow, cfg \in Settings, NEW l \in Chars, NEW c \in Chars,
           CreateParty(l, c)
    PROVE  /\ FitNow'
           /\ \A p2 \in parties' : Good(party'[p2])
<1> DEFINE r == NewParty(l)
           g == add_member(r, c)
<1>1. PICK p \in Ids \ parties :
         /\ parties' = parties \cup {p}
         /\ party' = [party EXCEPT ![p] = g]
         /\ party_of' = [party_of EXCEPT ![l] = p, ![c] = p]
  BY DEF CreateParty
<1>2. /\ l # c /\ party_of[l] = None /\ candidate_of[l] = None /\ offline_mem_of[l] = None
      /\ party_of[c] = None /\ candidate_of[c] = None /\ offline_mem_of[c] = None
      /\ candidate_of' = candidate_of /\ offline_mem_of' = offline_mem_of
  BY DEF CreateParty, Unattached
<1>3. /\ r \in Records /\ IsInjective(r.members) /\ Len(r.members) = 1
      /\ \A d : is_member(r, d) <=> d = l
      /\ r.leader = l /\ r.candidates = {} /\ r.offline = {}
      /\ IsFiniteSet(r.candidates) /\ Cardinality(r.candidates) = 0
  BY Founded
<1>4. cfg.max \in Nat \ {0, 1}
  BY PartyAssumption
<1>5. can_add(r)
  BY <1>3, <1>4 DEF can_add
<1> HIDE DEF r
<1>6. Good(g)
  BY <1>2, <1>3, <1>4, <1>5, MoreMembers
<1>7. /\ g \in Records /\ IsInjective(g.members)
      /\ \A d : is_member(g, d) <=> is_member(r, d) \/ d = c
      /\ g.candidates = {} /\ g.offline = {}
  BY <1>2, <1>3, WithMember
<1> HIDE DEF g
<1>8. /\ is_member(g, c) /\ c \notin g.candidates /\ is_member(g, l) /\ l \notin g.candidates
      /\ \A d \in Chars \ {l, c} : ~is_member(g, d) /\ d \notin g.candidates
  BY <1>3, <1>7
<1> QED
  BY <1>1, <1>2, <1>6, <1>7, <1>8, FoundFits
LEMMA InviteFits ==
    ASSUME FitNow, AllGood, TypedNow, cfg \in Settings, ExpectedIsAway, Misuse = {},
           NEW l \in Chars, NEW c \in Chars, add_candidate(l, c)
    PROVE  /\ FitNow'
           /\ \A p2 \in parties' : Good(party'[p2])
<1>1. /\ c # l /\ party_of[c] = None /\ candidate_of[c] = None /\ offline_mem_of[c] = None
      /\ candidate_of[l] = None /\ offline_mem_of[l] = None
  BY DEF add_candidate, ExpectedIsAway
<1>2. cfg.max \in Nat \ {0, 1}
  BY PartyAssumption
<1>3. CASE party_of[l] # None
  <2> DEFINE p == party_of[l]
             r == party[p]
             g == [r EXCEPT !.candidates = @ \cup {c}]
             q == [party EXCEPT ![p] = g]
             co == [candidate_of EXCEPT ![c] = p]
  <2>1. p \in Ids /\ p \in parties
    BY <1>3 DEF FitNow, Fit, MembersFit, TypedNow, Typed, Pointer
  <2>2. can_add(r) /\ Invites(l, c, p, r) /\ parties' = parties
    BY <1>3 DEF add_candidate
  <2>3. Keep(q, [party_of EXCEPT ![l] = p], co, offline_mem_of)
    BY <2>2 DEF Invites, Keep
  <2>4. [party_of EXCEPT ![l] = p] = party_of
    BY DEF TypedNow, Typed, Pointer
  <2>5. Keep(q, party_of, co, offline_mem_of)
    BY <2>3, <2>4
  <2> HIDE DEF p
  <2>6. /\ r \in Records /\ Good(r) /\ IsInjective(r.members) /\ p # None
        /\ \A d \in Chars : /\ party_of[d] = p <=> is_member(r, d)
                            /\ candidate_of[d] = p <=> d \in r.candidates
                            /\ offline_mem_of[d] = p <=> d \in r.offline
    BY <2>1, PartOf
  <2>7. /\ g \in Records /\ g.members = r.members /\ Good(g)
        /\ \A d : is_member(g, d) <=> is_member(r, d)
        /\ g.candidates = r.candidates \cup {c} /\ g.offline = r.offline
    <3>1. c \notin r.candidates /\ is_member(r, r.leader) /\ IsFiniteSet(r.candidates)
      BY <1>1, <2>6 DEF Good
    <3> HIDE DEF r
    <3> QED
      BY <1>2, <2>2, <2>6, <3>1, MoreCandidates
  <2> HIDE DEF g
  <2>8. q[p] = g /\ \A p2 \in parties \ {p} : q[p2] = party[p2]
    BY <2>1, <2>7 DEF TypedNow, Typed
  <2>9. /\ co \in Pointer /\ co[c] = p /\ \A d \in Chars \ {c} : co[d] = candidate_of[d]
        /\ party_of \in Pointer /\ offline_mem_of \in Pointer
    BY <2>1 DEF TypedNow, Typed, Pointer
  <2> HIDE DEF co
  <2>10. Fit(parties, q, party_of, co, offline_mem_of)
    BY <1>1, <2>1, <2>6, <2>7, <2>9, ChangeOne
  <2> HIDE DEF q
  <2> QED
    BY <2>1, <2>5, <2>7, <2>8, <2>10, KeepFits
<1>4. CASE party_of[l] = None
  <2> DEFINE r == NewParty(l)
             g == [r EXCEPT !.candidates = @ \cup {c}]
  <2>1. PICK p \in Ids \ parties : Invites(l, c, p, r) /\ parties' = parties \cup {p}
    BY <1>4 DEF add_candidate
  <2>2. /\ r \in Records /\ IsInjective(r.members) /\ Len(r.members) = 1
        /\ \A d : is_member(r, d) <=> d = l
        /\ r.leader = l /\ r.candidates = {} /\ r.offline = {}
        /\ IsFiniteSet(r.candidates) /\ Cardinality(r.candidates) = 0
    BY Founded
  <2>3. can_add(r)
    BY <1>2, <2>2 DEF can_add
  <2>4. /\ party' = [party EXCEPT ![p] = g]
        /\ party_of' = [party_of EXCEPT ![l] = p]
        /\ candidate_of' = [candidate_of EXCEPT ![c] = p]
        /\ offline_mem_of' = offline_mem_of
    BY <2>1, <2>3 DEF Invites
  <2> HIDE DEF r
  <2>5. /\ g \in Records /\ g.members = r.members /\ Good(g)
        /\ \A d : is_member(g, d) <=> is_member(r, d)
        /\ g.candidates = r.candidates \cup {c} /\ g.offline = r.offline
    BY <1>2, <2>2, <2>3, MoreCandidates
  <2> HIDE DEF g
  <2>6. /\ ~is_member(g, c) /\ c \in g.candidates /\ is_member(g, l) /\ l \notin g.candidates
        /\ \A d \in Chars \ {l, c} : ~is_member(g, d) /\ d \notin g.candidates
        /\ g.offline = {} /\ IsInjective(g.members)
    BY <1>1, <2>2, <2>5
  <2> QED
    BY <1>1, <1>4, <2>1, <2>4, <2>5, <2>6, FoundFits
<1> QED
  BY <1>3, <1>4
LEMMA LogoffFits ==
    ASSUME FitNow, AllGood, TypedNow, cfg \in Settings, Misuse = {}, NEW c \in Chars,
           on_loggoff_party(c)
    PROVE  /\ FitNow'
           /\ \A p2 \in parties' : Good(party'[p2])
           /\ \A d \in Chars : /\ candidate_of'[d] \in {None, candidate_of[d]}
                               /\ offline_mem_of'[d] # None =>
                                     d = c \/ offline_mem_of[d] # None
           /\ \A p2 \in parties \ parties' : Len(party[p2].members) <= 2
<1>1. CASE UNCHANGED << parties, party, pointers >>
  BY <1>1 DEF pointers, FitNow, AllGood
<1>2. CASE party_of[c] # None /\ ~(UNCHANGED << parties, party, pointers >>)
  <2> DEFINE p == party_of[c]
             gone == remove_member(party[p], c)
             r == LeaderLeft(c, gone)
             stays == test_size(gone)
             back == cfg.rejoin /\ stays
             g == IF back THEN [r EXCEPT !.offline = @ \cup {c}] ELSE r
             q == [party EXCEPT ![p] = g]
             po == [party_of EXCEPT ![c] = None]
             oo == IF back THEN [offline_mem_of EXCEPT ![c] = p] ELSE offline_mem_of
  <2>1. /\ is_member(party[p], c)
        /\ ~(gone.leader = c /\ gone.members = << >> /\ stays)
        /\ GoesOn(r.leader, stays, q, po, candidate_of, oo)
    BY <1>2 DEF on_loggoff_party
  <2>2. p \in Ids /\ p \in parties
    BY <1>2 DEF FitNow, Fit, MembersFit, TypedNow, Typed, Pointer
  <2> HIDE DEF p
  <2>3. /\ p # None /\ party[p] \in Records /\ Good(party[p])
        /\ party[p].leader \in Chars /\ party_of[party[p].leader] = p
        /\ IsInjective(party[p].members) /\ cfg.max \in Nat
        /\ party_of[c] = p /\ candidate_of[c] = None /\ offline_mem_of[c] = None
        /\ c \notin party[p].candidates /\ c \notin party[p].offline
        /\ \A d \in Chars : /\ party_of[d] = p <=> is_member(party[p], d)
                            /\ candidate_of[d] = p <=> d \in party[p].candidates
                            /\ offline_mem_of[d] = p <=> d \in party[p].offline
    BY <2>1, <2>2, PartOf
  <2>4. /\ gone \in Records /\ IsInjective(gone.members)
        /\ Len(gone.members) = Len(party[p].members) - 1
        /\ \A d : is_member(gone, d) <=> is_member(party[p], d) /\ d # c
        /\ gone.leader = party[p].leader /\ gone.candidates = party[p].candidates
        /\ gone.offline = party[p].offline
    BY <2>1, <2>3, WithoutMember
  <2> HIDE DEF gone
  <2>5. /\ r \in Records /\ IsInjective(r.members) /\ Len(r.members) = Len(gone.members)
        /\ \A d : is_member(r, d) <=> is_member(gone, d)
        /\ r.candidates = gone.candidates /\ r.offline = gone.offline
        /\ stays => is_member(r, r.leader)
        /\ ~stays => r = gone
    <3>1. CASE gone.leader = c /\ stays
      <4> DEFINE m == get_member_at_0(gone, c)
      <4>1. gone.members \in Seq(Chars) /\ gone.members # << >>
        BY <2>1, <2>4, <3>1 DEF Records
      <4>2. m \in Chars /\ is_member(gone, m)
        BY <4>1 DEF get_member_at_0, is_member, ToSet
      <4> HIDE DEF m
      <4>3. r = set_leader(gone, m)
        BY <3>1 DEF LeaderLeft, m
      <4> QED
        BY <2>4, <3>1, <4>2, <4>3, WithLeader
    <3>2. CASE ~(gone.leader = c /\ stays)
      <4>1. r = gone
        BY <3>2 DEF LeaderLeft
      <4>2. stays => is_member(gone, gone.leader)
        BY <2>3, <2>4, <3>2 DEF Good
      <4> QED
        BY <2>4, <4>1, <4>2
    <3> QED
      BY <3>1, <3>2
  <2> HIDE DEF r
  <2>6. /\ g \in Records /\ g.members = r.members /\ g.leader = r.leader
        /\ g.candidates = r.candidates
        /\ g.offline = IF back THEN r.offline \cup {c} ELSE r.offline
    BY <2>5 DEF Records
  <2>7. stays \in BOOLEAN
    BY DEF test_size
  <2>8. /\ po \in Pointer /\ po[c] = None /\ \A d \in Chars \ {c} : po[d] = party_of[d]
        /\ oo \in Pointer /\ oo[c] = IF back THEN p ELSE None
        /\ \A d \in Chars \ {c} : oo[d] = offline_mem_of[d]
        /\ candidate_of \in Pointer
    BY <2>2, <2>3 DEF TypedNow, Typed, Pointer
  <2> HIDE DEF g, po, oo
  <2>9. /\ ~is_member(g, c) /\ c \notin g.candidates
        /\ c \in g.offline <=> back
        /\ IsInjective(g.members)
    BY <2>3, <2>4, <2>5, <2>6 DEF is_member
  <2>10. \A d \in Chars \ {c} :
            /\ is_member(g, d) <=> is_member(party[p], d)
            /\ d \in g.candidates <=> d \in party[p].candidates
            /\ d \in g.offline <=> d \in party[p].offline
    BY <2>4, <2>5, <2>6 DEF is_member
  <2>11. q \in [Ids -> Records] /\ q[p] = g /\ \A p2 \in parties \ {p} : q[p2] = party[p2]
    BY <2>2, <2>6 DEF TypedNow, Typed
  <2>12. Typed(parties, q, po, candidate_of, oo)
    BY <2>8, <2>11 DEF TypedNow, Typed
  <2>13. Fit(parties, q, po, candidate_of, oo)
    BY <2>2, <2>3, <2>6, <2>8, <2>9, <2>10, ChangeOne
  <2> HIDE DEF q
  <2>14. stays => Good(g)
    <3> SUFFICES ASSUME stays PROVE Good(g)
      OBVIOUS
    <3>1. is_member(g, g.leader) /\ IsFiniteSet(g.candidates)
      BY <2>3, <2>4, <2>5, <2>6 DEF Good, is_member
    <3>2. Len(party[p].members) \in Nat /\ Cardinality(g.candidates) \in Nat
      BY <2>3, <3>1, LenOfMembers, FS_CardinalityType DEF Good
    <3>3. Len(g.members) + Cardinality(g.candidates) <= cfg.max
      BY <2>3, <2>4, <2>5, <2>6, <3>2 DEF Good
    <3>4. test_size(g)
      BY <2>5, <2>6 DEF test_size
    <3> QED
      BY <2>3, <2>6, <3>1, <3>3, <3>4, StaysGood
  <2>15. ~stays => q[p].leader = party[p].leader /\ r.leader = party[p].leader
    BY <2>4, <2>5, <2>6, <2>11
  <2>16. GoesOn(r.leader, stays, q, po, candidate_of, oo)
    BY <2>1
  <2>17. r.leader \in Chars
    <3>1. CASE stays
      BY <2>5, <3>1 DEF is_member, ToSet, Records
    <3>2. CASE ~stays
      BY <2>3, <2>15, <3>2
    <3> QED
      BY <3>1, <3>2
  <2>18. ~stays => Len(party[p].members) <= 2
    <3>1. Len(party[p].members) \in Nat
      BY <2>3, LenOfMembers DEF Good
    <3> QED
      BY <2>4, <3>1 DEF test_size
  <2> HIDE DEF stays
  <2>19. /\ FitNow'
         /\ \A p2 \in parties' : Good(party'[p2])
         /\ \A d \in Chars : /\ candidate_of'[d] \in {None, candidate_of[d]}
                             /\ offline_mem_of'[d] \in {None, oo[d]}
         /\ \A p2 \in parties \ parties' : p2 = p /\ ~stays
    <3>1. ~stays => q[p].leader = r.leader /\ party_of[r.leader] = p
      BY <2>3, <2>15
    <3>2. stays => Good(q[p])
      BY <2>11, <2>14
    <3> QED
      BY <2>2, <2>7, <2>11, <2>12, <2>13, <2>16, <2>17, <3>1, <3>2, GoesOnFits
  <2> QED
    BY <2>8, <2>19, <2>18
<1> QED
  BY <1>1, <1>2 DEF on_loggoff_party
LEMMA LogonFits ==
    ASSUME FitNow, AllGood, TypedNow, cfg \in Settings, NEW c \in Chars, on_loggon_party(c)
    PROVE  /\ FitNow'
           /\ \A p2 \in parties' : Good(party'[p2])
           /\ candidate_of' = candidate_of /\ parties' = parties
           /\ offline_mem_of' = [offline_mem_of EXCEPT ![c] = None]
<1>1. CASE offline_mem_of[c] = None
  BY <1>1 DEF on_loggon_party, pointers, FitNow, AllGood, TypedNow, Typed, Pointer
<1>2. CASE offline_mem_of[c] # None
  <2> DEFINE p == offline_mem_of[c]
             r == [party[p] EXCEPT !.offline = @ \ {c}]
             back == c \in party[p].offline /\ can_add(r)
             g == IF back THEN add_member(r, c) ELSE r
             q == [party EXCEPT ![p] = g]
             po == IF back THEN [party_of EXCEPT ![c] = p] ELSE party_of
             oo == [offline_mem_of EXCEPT ![c] = None]
  <2>1. Keep(q, po, candidate_of, oo)
    BY <1>2 DEF on_loggon_party
  <2>2. p \in Ids /\ p \in parties
    BY <1>2 DEF FitNow, Fit, OfflineFit, TypedNow, Typed, Pointer
  <2> HIDE DEF p
  <2>3. /\ p # None /\ party[p] \in Records /\ Good(party[p])
        /\ IsInjective(party[p].members) /\ cfg.max \in Nat
        /\ \A d \in Chars : /\ party_of[d] = p <=> is_member(party[p], d)
                            /\ candidate_of[d] = p <=> d \in party[p].candidates
                            /\ offline_mem_of[d] = p <=> d \in party[p].offline
    BY <2>2, PartOf
  <2>4. offline_mem_of[c] = p /\ party_of[c] = None /\ candidate_of[c] = None
    BY <1>2 DEF p, FitNow, Fit, Single
  <2>5. /\ r \in Records /\ r.members = party[p].members /\ r.leader = party[p].leader
        /\ r.candidates = party[p].candidates /\ r.offline = party[p].offline \ {c}
        /\ \A d : is_member(r, d) <=> is_member(party[p], d)
    BY <2>3 DEF Records, is_member
  <2> HIDE DEF r
  <2>6. Good(r) /\ ~is_member(r, c) /\ IsInjective(r.members)
    BY <2>3, <2>4, <2>5 DEF Good
  <2>7. /\ g \in Records /\ IsInjective(g.members) /\ Good(g)
        /\ \A d \in Chars \ {c} : is_member(g, d) <=> is_member(r, d)
        /\ g.candidates = r.candidates /\ g.offline = r.offline
        /\ po \in Pointer /\ po[c] = IF is_member(g, c) THEN p ELSE None
        /\ \A d \in Chars \ {c} : po[d] = party_of[d]
    <3>1. CASE back
      <4>1. g = add_member(r, c) /\ can_add(r) /\ po = [party_of EXCEPT ![c] = p]
        BY <3>1
      <4> HIDE DEF g, po, back
      <4>2. Good(g)
        BY <2>3, <2>5, <2>6, <4>1, MoreMembers DEF Good
      <4>3. /\ g \in Records /\ IsInjective(g.members)
            /\ \A d : is_member(g, d) <=> is_member(r, d) \/ d = c
            /\ g.candidates = r.candidates /\ g.offline = r.offline
        BY <2>5, <2>6, <4>1, WithMember
      <4> QED
        BY <2>2, <4>1, <4>2, <4>3 DEF TypedNow, Typed, Pointer
    <3>2. CASE ~back
      <4>1. g = r /\ po = party_of
        BY <3>2
      <4> HIDE DEF g, po, back
      <4> QED
        BY <2>4, <2>5, <2>6, <4>1 DEF TypedNow, Typed
    <3> QED
      BY <3>1, <3>2
  <2>8. /\ oo \in Pointer /\ oo[c] = None
        /\ \A d \in Chars \ {c} : oo[d] = offline_mem_of[d]
        /\ candidate_of \in Pointer
    BY <2>2 DEF TypedNow, Typed, Pointer
  <2> HIDE DEF g, po, oo
  <2>9. c \notin g.candidates /\ c \notin g.offline
    BY <2>3, <2>4, <2>5, <2>7
  <2>10. \A d \in Chars \ {c} :
            /\ is_member(g, d) <=> is_member(party[p], d)
            /\ d \in g.candidates <=> d \in party[p].candidates
            /\ d \in g.offline <=> d \in party[p].offline
    BY <2>5, <2>7
  <2>11. q[p] = g /\ \A p2 \in parties \ {p} : q[p2] = party[p2]
    BY <2>2, <2>7 DEF TypedNow, Typed
  <2>12. Fit(parties, q, po, candidate_of, oo)
    <3>1. /\ po[c] = IF is_member(g, c) THEN p ELSE None
          /\ candidate_of[c] = IF c \in g.candidates THEN p ELSE None
          /\ oo[c] = IF c \in g.offline THEN p ELSE None
          /\ party_of[c] \in {None, p} /\ candidate_of[c] \in {None, p}
          /\ offline_mem_of[c] \in {None, p}
      BY <2>4, <2>7, <2>8, <2>9
    <3>2. \A d \in Chars \ {c} :
             /\ po[d] = party_of[d] /\ oo[d] = offline_mem_of[d]
             /\ is_member(g, d) <=> is_member(party[p], d)
             /\ d \in g.candidates <=> d \in party[p].candidates
             /\ d \in g.offline <=> d \in party[p].offline
      BY <2>7, <2>8, <2>10
    <3> QED
      BY <2>2, <2>7, <2>8, <2>9, <3>1, <3>2, ChangeOne
  <2> HIDE DEF q
  <2>13. FitNow' /\ \A p2 \in parties' : Good(party'[p2])
    BY <2>1, <2>2, <2>7, <2>11, <2>12, KeepFits
  <2> QED
    BY <2>1, <2>13 DEF Keep, oo
<1> QED
  BY <1>1, <1>2
LEMMA DisbandPartyFits ==
    ASSUME FitNow, AllGood, TypedNow, cfg \in Settings, NEW p \in parties, DisbandParty(p)
    PROVE  /\ FitNow'
           /\ \A p2 \in parties' : Good(party'[p2])
           /\ \A c \in Chars : /\ candidate_of'[c] \in {None, candidate_of[c]}
                               /\ offline_mem_of'[c] \in {None, offline_mem_of[c]}
           /\ \A p2 \in parties \ parties' : p2 = p
<1> DEFINE l == party[p].leader
           stays == FALSE
<1>1. l \in Chars /\ party_of[l] = p
  BY PartOf
<1>2. GoesOn(l, stays, party, party_of, candidate_of, offline_mem_of)
  BY DEF DisbandParty, GoesOn
<1>3. /\ Typed(parties, party, party_of, candidate_of, offline_mem_of)
      /\ Fit(parties, party, party_of, candidate_of, offline_mem_of)
  BY DEF TypedNow, FitNow
<1>4. /\ stays \in BOOLEAN /\ ~stays /\ party[p].leader = l
      /\ \A p2 \in parties \ {p} : party[p2] = party[p2]
  OBVIOUS
<1> HIDE DEF l, stays
<1> QED
  BY <1>1, <1>2, <1>3, <1>4, GoesOnFits
LEMMA RestartFits ==
    ASSUME FitNow, AllGood, TypedNow, cfg \in Settings, Restart
    PROVE  /\ FitNow'
           /\ \A p2 \in parties' : Good(party'[p2])
<1> DEFINE kept == {p \in parties : Written(p)}
<1>1. \A p \in kept : p \in Ids /\ p \in parties /\ Len(party[p].members) > 1
  BY DEF Written, TypedNow, Typed
<1>2. \A p \in Ids : /\ party'[p].members = IF p \in kept THEN party[p].members ELSE << >>
                     /\ party'[p].candidates = {} /\ party'[p].offline = {}
                     /\ party'[p].leader = party[p].leader
  <2> HIDE DEF kept
  <2>1. party' = [p \in Ids |-> [party[p] EXCEPT
                    !.members = IF p \in kept THEN @ ELSE << >>,
                    !.candidates = {}, !.offline = {}]]
    BY DEF Restart, kept
  <2> QED
    BY <2>1 DEF TypedNow, Typed, Records
<1>3. /\ parties' = kept
      /\ candidate_of' = [c \in Chars |-> None] /\ offline_mem_of' = [c \in Chars |-> None]
      /\ \A c \in Chars : party_of'[c] \in
                             IF {p \in kept : is_member(party[p], c)} = {} THEN {None}
                             ELSE {p \in kept : is_member(party[p], c)}
  BY DEF Restart
<1> HIDE DEF kept
<1>4. ASSUME NEW c \in Chars, NEW p \in Ids
      PROVE  party_of'[c] = p <=> p \in parties' /\ is_member(party'[p], c)
  <2>1. \A p2 \in kept : is_member(party[p2], c) => party_of[c] = p2
    BY <1>1 DEF FitNow, Fit, MembersFit
  <2>2. is_member(party'[p], c) <=> p \in kept /\ is_member(party[p], c)
    BY <1>2 DEF is_member, ToSet
  <2> QED
    BY <1>3, <2>1, <2>2, NoneIsNoParty
<1>5. ASSUME NEW p \in Ids PROVE IsInjective(party'[p].members)
  <2>1. IsInjective(<< >>)
    BY DEF IsInjective
  <2> QED
    BY <1>2, <2>1 DEF FitNow, Fit, MembersFit
<1>6. CandidatesFit(parties', party', candidate_of')
  BY <1>2, <1>3, NoneIsNoParty DEF CandidatesFit
<1>7. OfflineFit(parties', party', offline_mem_of')
  BY <1>2, <1>3, NoneIsNoParty DEF OfflineFit
<1>8. Single(party_of', candidate_of', offline_mem_of')
  BY <1>3 DEF Single
<1>9. FitNow'
  BY <1>4, <1>5, <1>6, <1>7, <1>8 DEF FitNow, Fit, MembersFit
<1>10. ASSUME NEW p \in kept PROVE Good(party'[p])
  <2>1. /\ party'[p].members = party[p].members /\ party'[p].candidates = {}
        /\ party'[p].leader = party[p].leader /\ p \in parties
        /\ Len(party[p].members) > 1
    BY <1>1, <1>2
  <2>2. IsFiniteSet({}) /\ Cardinality({}) = 0
    BY FS_EmptySet
  <2>3. /\ Good(party[p]) /\ cfg.max \in Nat /\ party[p] \in Records
    BY <2>1, PartOf
  <2>4. Len(party[p].members) \in Nat /\ Cardinality(party[p].candidates) \in Nat
    BY <2>3, LenOfMembers, FS_CardinalityType DEF Good
  <2> QED
    BY <2>1, <2>2, <2>3, <2>4 DEF Good, is_member
<1> QED
  BY <1>3, <1>9, <1>10

-----------------------------------------------------------------------------
(* The steps together.                                                     *)

\* What a step does to the conjuncts of IInv that are not about records.
Kept == /\ FitNow' /\ AllGood' /\ InvitedIsTimed' /\ ExpectedIsAway'

\* The parties that a step may end: small ones, and others only by an action of
\* which the leader or a script is the author.
Endings ==
    \A p \in parties \ parties' :
       \/ Len(party[p].members) <= 2
       \/ handle_remove(party[p].leader, party[p].leader) \/ DisbandParty(p) \/ Restart

LEMMA KeptSo ==
    ASSUME cfg' = cfg, FitNow', \A p \in parties' : Good(party'[p]),
           InvitedIsTimed', ExpectedIsAway'
    PROVE  Kept
BY DEF Kept, AllGood, Good
LEMMA PacketsKeep ==
    ASSUME IInv, Misuse = {}, NEW c \in Chars, NEW d \in Chars,
           \/ add_candidate(c, d) \/ CreateParty(c, d)
           \/ handle_accept_invite(c, d) \/ handle_decline_invite(c, d)
           \/ handle_remove(c, d)
    PROVE  Kept /\ Endings
<1>0. FitNow /\ AllGood /\ TypedNow /\ cfg \in Settings /\ InvitedIsTimed /\ ExpectedIsAway
  BY TypeParts DEF IInv, Others
<1>1. CASE add_candidate(c, d)
  <2>1. cfg' = cfg /\ FitNow' /\ \A p \in parties' : Good(party'[p])
    BY <1>0, <1>1, InviteFits DEF add_candidate, Invites
  <2>2. InvitedIsTimed' /\ ExpectedIsAway' /\ parties \subseteq parties'
    BY <1>0, <1>1 DEF add_candidate, Invites, InvitedIsTimed, ExpectedIsAway, TypedNow, Typed,
                      Pointer
  <2> QED
    BY <2>1, <2>2, KeptSo DEF Endings
<1>2. CASE CreateParty(c, d)
  <2>1. cfg' = cfg /\ FitNow' /\ \A p \in parties' : Good(party'[p])
    BY <1>0, <1>2, CreateFits DEF CreateParty
  <2>2. InvitedIsTimed' /\ ExpectedIsAway' /\ parties \subseteq parties'
    BY <1>0, <1>2 DEF CreateParty, InvitedIsTimed, ExpectedIsAway
  <2> QED
    BY <2>1, <2>2, KeptSo DEF Endings
<1>3. CASE handle_accept_invite(c, d)
  <2>1. cfg' = cfg /\ FitNow' /\ \A p \in parties' : Good(party'[p])
    BY <1>0, <1>3, AcceptFits DEF handle_accept_invite
  <2>2. /\ timeout' = timeout \ {c} /\ presence' = presence /\ parties' = parties
        /\ candidate_of' = [candidate_of EXCEPT ![c] = None]
        /\ offline_mem_of' = offline_mem_of
    BY <1>3 DEF handle_accept_invite, Keep
  <2>3. InvitedIsTimed' /\ ExpectedIsAway'
    BY <1>0, <2>2 DEF InvitedIsTimed, ExpectedIsAway, TypedNow, Typed, Pointer
  <2> QED
    BY <2>1, <2>2, <2>3, KeptSo DEF Endings
<1>4. CASE handle_decline_invite(c, d)
  <2> DEFINE p == party_of[d]
  <2>1. /\ p # None /\ c \in party[p].candidates /\ CandidateGoes(c, p, d)
        /\ timeout' = timeout \ {c} /\ cfg' = cfg /\ presence' = presence
    BY <1>4 DEF handle_decline_invite
  <2>2. p \in parties
    BY <1>0, <2>1 DEF FitNow, Fit, MembersFit, TypedNow, Typed, Pointer
  <2>3. party_of[d] = p
    OBVIOUS
  <2> HIDE DEF p
  <2>4. /\ FitNow' /\ \A p2 \in parties' : Good(party'[p2])
        /\ candidate_of'[c] = None
        /\ \A e \in Chars : /\ candidate_of'[e] \in {None, candidate_of[e]}
                            /\ offline_mem_of'[e] \in {None, offline_mem_of[e]}
        /\ \A p2 \in parties \ parties' : p2 = p /\ Len(party[p].members) <= 1
    BY <1>0, <2>1, <2>2, <2>3, CandidateGoesFits
  <2>5. InvitedIsTimed' /\ ExpectedIsAway'
    BY <1>0, <2>1, <2>4 DEF InvitedIsTimed, ExpectedIsAway
  <2>6. Len(party[p].members) \in Nat
    BY <1>0, <2>2 DEF TypedNow, Typed, Records
  <2>7. Endings
    BY <2>4, <2>6 DEF Endings
  <2> QED
    BY <2>1, <2>4, <2>5, <2>7, KeptSo
<1>5. CASE handle_remove(c, d)
  <2> DEFINE p == party_of[c]
  <2>1. /\ p # None /\ is_member(party[p], d) /\ MemberGoes(d, p)
        /\ party[p].leader = c \/ d = c
        /\ timeout' = timeout /\ cfg' = cfg /\ presence' = presence
    BY <1>5 DEF handle_remove
  <2>2. p \in parties
    BY <1>0, <2>1 DEF FitNow, Fit, MembersFit, TypedNow, Typed, Pointer
  <2> HIDE DEF p
  <2>3. /\ FitNow' /\ \A p2 \in parties' : Good(party'[p2])
        /\ \A e \in Chars : /\ candidate_of'[e] \in {None, candidate_of[e]}
                            /\ offline_mem_of'[e] \in {None, offline_mem_of[e]}
        /\ \A p2 \in parties \ parties' :
              p2 = p /\ (d = party[p].leader \/ Len(party[p].members) <= 2)
    BY <1>0, <2>1, <2>2, MemberGoesFits
  <2>4. InvitedIsTimed' /\ ExpectedIsAway'
    BY <1>0, <2>1, <2>3 DEF InvitedIsTimed, ExpectedIsAway
  <2>5. Endings
    BY <1>5, <2>1, <2>3 DEF Endings
  <2> QED
    BY <2>1, <2>3, <2>4, <2>5, KeptSo
<1> QED
  BY <1>1, <1>2, <1>3, <1>4, <1>5
LEMMA CharsKeep ==
    ASSUME IInv, Misuse = {}, NEW c \in Chars,
           invite_timeout(c) \/ Logon(c) \/ Disconnect(c) \/ Logoff(c)
    PROVE  Kept /\ Endings
<1>0. FitNow /\ AllGood /\ TypedNow /\ cfg \in Settings /\ InvitedIsTimed /\ ExpectedIsAway
      /\ presence \in [Chars -> {"playing", "lingering", "offline"}]
  BY TypeParts DEF IInv, Others
<1>1. CASE invite_timeout(c)
  <2>0. timeout' = timeout \ {c} /\ cfg' = cfg /\ presence' = presence
    BY <1>1 DEF invite_timeout
  <2>1. CASE candidate_of[c] # None
    <3> DEFINE p == candidate_of[c]
               l == party[p].leader
    <3>1. p \in Ids /\ p \in parties /\ c \in party[p].candidates
      BY <1>0, <2>1 DEF FitNow, Fit, CandidatesFit, TypedNow, Typed, Pointer
    <3>2. CandidateGoes(c, p, l)
      BY <1>1, <2>1, <3>1 DEF invite_timeout
    <3> HIDE DEF p
    <3>3. l \in Chars /\ party_of[l] = p
      BY <1>0, <3>1, PartOf
    <3> HIDE DEF l
    <3>4. /\ FitNow' /\ \A p2 \in parties' : Good(party'[p2])
          /\ candidate_of'[c] = None
          /\ \A e \in Chars : /\ candidate_of'[e] \in {None, candidate_of[e]}
                              /\ offline_mem_of'[e] \in {None, offline_mem_of[e]}
          /\ \A p2 \in parties \ parties' : p2 = p /\ Len(party[p].members) <= 1
      BY <1>0, <3>1, <3>2, <3>3, CandidateGoesFits
    <3>5. InvitedIsTimed' /\ ExpectedIsAway'
      BY <1>0, <2>0, <3>4 DEF InvitedIsTimed, ExpectedIsAway
    <3>6. Len(party[p].members) \in Nat
      BY <1>0, <3>1 DEF TypedNow, Typed, Records
    <3>7. Endings
      BY <3>4, <3>6 DEF Endings
    <3> QED
      BY <2>0, <3>4, <3>5, <3>7, KeptSo
  <2>2. CASE candidate_of[c] = None
    <3>1. /\ parties' = parties /\ party' = party /\ party_of' = party_of
          /\ candidate_of' = candidate_of /\ offline_mem_of' = offline_mem_of
      BY <1>0, <1>1, <2>2 DEF invite_timeout, Keep, TypedNow, Typed, Pointer
    <3>2. InvitedIsTimed' /\ ExpectedIsAway'
      BY <1>0, <2>0, <2>2, <3>1 DEF InvitedIsTimed, ExpectedIsAway
    <3>3. FitNow' /\ \A p2 \in parties' : Good(party'[p2])
      BY <1>0, <3>1 DEF FitNow, AllGood
    <3> QED
      BY <2>0, <3>1, <3>2, <3>3, KeptSo DEF Endings
  <2> QED
    BY <2>1, <2>2
<1>2. CASE Logon(c)
  <2>1. /\ presence' = [presence EXCEPT ![c] = "playing"] /\ on_loggon_party(c)
        /\ cfg' = cfg /\ timeout' = timeout
    BY <1>2 DEF Logon
  <2>2. /\ FitNow' /\ \A p2 \in parties' : Good(party'[p2])
        /\ candidate_of' = candidate_of /\ parties' = parties
        /\ offline_mem_of' = [offline_mem_of EXCEPT ![c] = None]
    BY <1>0, <2>1, LogonFits
  <2>3. InvitedIsTimed' /\ ExpectedIsAway'
    BY <1>0, <2>1, <2>2 DEF InvitedIsTimed, ExpectedIsAway, TypedNow, Typed, Pointer
  <2> QED
    BY <2>1, <2>2, <2>3, KeptSo DEF Endings
<1>3. CASE Disconnect(c) \/ Logoff(c)
  <2>1. /\ presence' \in {[presence EXCEPT ![c] = "lingering"], [presence EXCEPT ![c] = "offline"]}
        /\ on_loggoff_party(c) /\ cfg' = cfg /\ timeout' = timeout
    BY <1>3 DEF Disconnect, Logoff
  <2>2. /\ FitNow' /\ \A p2 \in parties' : Good(party'[p2])
        /\ \A d \in Chars : /\ candidate_of'[d] \in {None, candidate_of[d]}
                            /\ offline_mem_of'[d] # None =>
                                  d = c \/ offline_mem_of[d] # None
        /\ \A p2 \in parties \ parties' : Len(party[p2].members) <= 2
    BY <1>0, <2>1, LogoffFits
  <2>3. \A d \in Chars : /\ d # c => presence'[d] = presence[d]
                         /\ presence'[c] # "playing"
    BY <1>0, <2>1
  <2>4. InvitedIsTimed' /\ ExpectedIsAway'
    BY <1>0, <2>1, <2>2, <2>3 DEF InvitedIsTimed, ExpectedIsAway
  <2> QED
    BY <2>1, <2>2, <2>4, KeptSo DEF Endings
<1> QED
  BY <1>1, <1>2, <1>3
LEMMA ScriptsKeep ==
    ASSUME IInv, Misuse = {}, NEW p \in Refs,
           \/ DisbandParty(p)
           \/ \E c \in Chars : \/ addmember(p, c) \/ removemember(p, c)
                               \/ addcandidate(p, c) \/ removecandidate(p, c)
                               \/ setleader(p, c)
    PROVE  Kept /\ Endings
<1>0. FitNow /\ AllGood /\ TypedNow /\ cfg \in Settings /\ InvitedIsTimed /\ ExpectedIsAway
      /\ p \in parties
  BY TypeParts DEF IInv, Others, Refs
<1>1. CASE DisbandParty(p)
  <2>1. /\ FitNow' /\ \A p2 \in parties' : Good(party'[p2])
        /\ \A c \in Chars : /\ candidate_of'[c] \in {None, candidate_of[c]}
                            /\ offline_mem_of'[c] \in {None, offline_mem_of[c]}
        /\ \A p2 \in parties \ parties' : p2 = p
    BY <1>0, <1>1, DisbandPartyFits
  <2>2. cfg' = cfg /\ timeout' = timeout /\ presence' = presence
    BY <1>1 DEF DisbandParty
  <2>3. InvitedIsTimed' /\ ExpectedIsAway'
    BY <1>0, <2>1, <2>2 DEF InvitedIsTimed, ExpectedIsAway
  <2>4. Endings
    BY <1>1, <2>1 DEF Endings
  <2> QED
    BY <2>1, <2>2, <2>3, <2>4, KeptSo
<1>2. ASSUME NEW c \in Chars, addmember(p, c) PROVE Kept /\ Endings
  <2>1. FitNow' /\ \A p2 \in parties' : Good(party'[p2])
    BY <1>0, <1>2, AddMemberFits
  <2>2. /\ cfg' = cfg /\ timeout' = timeout /\ presence' = presence /\ parties' = parties
        /\ candidate_of' = candidate_of /\ offline_mem_of' = offline_mem_of
    BY <1>2 DEF addmember, Keep
  <2>3. InvitedIsTimed' /\ ExpectedIsAway'
    BY <1>0, <2>2 DEF InvitedIsTimed, ExpectedIsAway
  <2> QED
    BY <2>1, <2>2, <2>3, KeptSo DEF Endings
<1>3. ASSUME NEW c \in Chars, removemember(p, c) PROVE Kept /\ Endings
  <2>1. /\ is_member(party[p], c) /\ MemberGoes(c, p) /\ party[p].leader # c
        /\ timeout' = timeout /\ cfg' = cfg /\ presence' = presence
    BY <1>3 DEF removemember
  <2>2. /\ FitNow' /\ \A p2 \in parties' : Good(party'[p2])
        /\ \A e \in Chars : /\ candidate_of'[e] \in {None, candidate_of[e]}
                            /\ offline_mem_of'[e] \in {None, offline_mem_of[e]}
        /\ \A p2 \in parties \ parties' :
              p2 = p /\ (c = party[p].leader \/ Len(party[p].members) <= 2)
    BY <1>0, <2>1, MemberGoesFits
  <2>3. InvitedIsTimed' /\ ExpectedIsAway'
    BY <1>0, <2>1, <2>2 DEF InvitedIsTimed, ExpectedIsAway
  <2>4. Endings
    BY <2>1, <2>2 DEF Endings
  <2> QED
    BY <2>1, <2>2, <2>3, <2>4, KeptSo
<1>4. ASSUME NEW c \in Chars, addcandidate(p, c) PROVE Kept /\ Endings
  <2>1. FitNow' /\ \A p2 \in parties' : Good(party'[p2])
    BY <1>0, <1>4, AddCandidateFits
  <2>2. /\ cfg' = cfg /\ timeout' = timeout \cup {c} /\ presence' = presence
        /\ parties' = parties /\ candidate_of' = [candidate_of EXCEPT ![c] = p]
        /\ offline_mem_of' = offline_mem_of
    BY <1>4 DEF addcandidate, Keep
  <2>3. InvitedIsTimed' /\ ExpectedIsAway'
    BY <1>0, <2>2 DEF InvitedIsTimed, ExpectedIsAway, TypedNow, Typed, Pointer
  <2> QED
    BY <2>1, <2>2, <2>3, KeptSo DEF Endings
<1>5. ASSUME NEW c \in Chars, removecandidate(p, c) PROVE Kept /\ Endings
  <2> DEFINE l == party[p].leader
  <2>1. /\ c \in party[p].candidates /\ CandidateGoes(c, p, l)
        /\ timeout' = timeout \ {c} /\ cfg' = cfg /\ presence' = presence
    BY <1>5 DEF removecandidate
  <2>2. l \in Chars /\ party_of[l] = p
    BY <1>0, PartOf
  <2> HIDE DEF l
  <2>3. /\ FitNow' /\ \A p2 \in parties' : Good(party'[p2])
        /\ candidate_of'[c] = None
        /\ \A e \in Chars : /\ candidate_of'[e] \in {None, candidate_of[e]}
                            /\ offline_mem_of'[e] \in {None, offline_mem_of[e]}
        /\ \A p2 \in parties \ parties' : p2 = p /\ Len(party[p].members) <= 1
    BY <1>0, <2>1, <2>2, CandidateGoesFits
  <2>4. InvitedIsTimed' /\ ExpectedIsAway'
    BY <1>0, <2>1, <2>3 DEF InvitedIsTimed, ExpectedIsAway
  <2>5. Len(party[p].members) \in Nat
    BY <1>0 DEF TypedNow, Typed, Records
  <2>6. Endings
    BY <2>3, <2>5 DEF Endings
  <2> QED
    BY <2>1, <2>3, <2>4, <2>6, KeptSo
<1>6. ASSUME NEW c \in Chars, setleader(p, c) PROVE Kept /\ Endings
  <2>1. FitNow' /\ \A p2 \in parties' : Good(party'[p2])
    BY <1>0, <1>6, SetLeaderFits
  <2>2. /\ cfg' = cfg /\ timeout' = timeout /\ presence' = presence /\ parties' = parties
        /\ candidate_of' = candidate_of /\ offline_mem_of' = offline_mem_of
    BY <1>6 DEF setleader, pointers
  <2>3. InvitedIsTimed' /\ ExpectedIsAway'
    BY <1>0, <2>2 DEF InvitedIsTimed, ExpectedIsAway
  <2> QED
    BY <2>1, <2>2, <2>3, KeptSo DEF Endings
<1> QED
  BY <1>1, <1>2, <1>3, <1>4, <1>5, <1>6
LEMMA NextKeeps == ASSUME IInv, Misuse = {}, Next PROVE Kept /\ Endings
<1>1. CASE Restart
  <2>0. FitNow /\ AllGood /\ TypedNow /\ cfg \in Settings
    BY TypeParts DEF IInv, Others
  <2>1. FitNow' /\ \A p2 \in parties' : Good(party'[p2])
    BY <1>1, <2>0, RestartFits
  <2>2. /\ cfg' = cfg /\ candidate_of' = [c \in Chars |-> None]
        /\ offline_mem_of' = [c \in Chars |-> None]
    BY <1>1 DEF Restart
  <2>3. InvitedIsTimed' /\ ExpectedIsAway'
    BY <2>2 DEF InvitedIsTimed, ExpectedIsAway
  <2> QED
    BY <1>1, <2>1, <2>2, <2>3, KeptSo DEF Endings
<1>2. ASSUME NEW c \in Chars, NEW d \in Chars,
             \/ add_candidate(c, d) \/ CreateParty(c, d)
             \/ handle_accept_invite(c, d) \/ handle_decline_invite(c, d)
             \/ handle_remove(c, d)
      PROVE  Kept /\ Endings
  BY <1>2, PacketsKeep
<1>3. ASSUME NEW c \in Chars, invite_timeout(c) \/ Logon(c) \/ Disconnect(c) \/ Logoff(c)
      PROVE  Kept /\ Endings
  BY <1>3, CharsKeep
<1>4. ASSUME NEW p \in Refs,
             \/ DisbandParty(p)
             \/ \E c \in Chars : \/ addmember(p, c) \/ removemember(p, c)
                                 \/ addcandidate(p, c) \/ removecandidate(p, c)
                                 \/ setleader(p, c)
      PROVE  Kept /\ Endings
  BY <1>4, ScriptsKeep
<1> QED
  BY <1>1, <1>2, <1>3, <1>4 DEF Next
LEMMA InitInv == Init => IInv
<1> SUFFICES ASSUME Init PROVE IInv
  OBVIOUS
<1>1. TypeOK
  BY InitType
<1>2. FitNow
  <2>1. IsInjective(<< >>)
    BY DEF IsInjective
  <2> QED
    BY <2>1, NoneIsNoParty DEF Init, FitNow, Fit, MembersFit, CandidatesFit, OfflineFit, Single
<1>3. AllGood /\ InvitedIsTimed /\ ExpectedIsAway
  BY DEF Init, AllGood, InvitedIsTimed, ExpectedIsAway
<1> QED
  BY <1>1, <1>2, <1>3 DEF IInv
LEMMA NextInv == ASSUME Misuse = {} PROVE IInv /\ [Next]_vars => IInv'
<1> SUFFICES ASSUME IInv, [Next]_vars PROVE IInv'
  OBVIOUS
<1>1. TypeOK'
  BY NextType DEF IInv
<1>2. CASE Next
  BY <1>1, <1>2, NextKeeps DEF Kept, IInv
<1>3. CASE UNCHANGED vars
  <2>1. FitNow' /\ AllGood' /\ InvitedIsTimed' /\ ExpectedIsAway'
    BY <1>3 DEF IInv, vars, pointers, FitNow, AllGood, Good, InvitedIsTimed, ExpectedIsAway
  <2> QED
    BY <1>1, <2>1 DEF IInv
<1> QED
  BY <1>2, <1>3

(* The invariant that the theorems below rest on: characters and parties agree, all
   parties are as they should be, and who is expected back is not playing. *)
THEOREM Invariant == ASSUME Misuse = {} PROVE Spec => []IInv
  BY InitInv, NextInv, PTL DEF Spec
LEMMA OneOfThree ==
    ASSUME NEW a, NEW b, NEW c, a # None => b = None /\ c = None, b # None => c = None
    PROVE  Cardinality({f \in {<< 1, a >>, << 2, b >>, << 3, c >>} : f[2] # None}) <= 1
<1> DEFINE F == {f \in {<< 1, a >>, << 2, b >>, << 3, c >>} : f[2] # None}
<1>1. F = {} \/ \E x : F = {x}
  <2>1. CASE a # None
    <3>1. F = {<< 1, a >>}
      BY <2>1
    <3> QED
      BY <3>1
  <2>2. CASE a = None /\ b # None
    <3>1. F = {<< 2, b >>}
      BY <2>2
    <3> QED
      BY <3>1
  <2>3. CASE a = None /\ b = None /\ c # None
    <3>1. F = {<< 3, c >>}
      BY <2>3
    <3> QED
      BY <3>1
  <2>4. CASE a = None /\ b = None /\ c = None
    BY <2>4
  <2> QED
    BY <2>1, <2>2, <2>3, <2>4
<1> HIDE DEF F
<1>2. Cardinality({}) = 0
  BY FS_EmptySet
<1>3. Cardinality(F) <= 1
  <2>1. ASSUME NEW x, F = {x} PROVE Cardinality(F) <= 1
    <3>1. Cardinality({x}) = 1
      BY FS_Singleton
    <3> QED
      BY <2>1, <3>1
  <2>2. CASE F = {}
    BY <1>2, <2>2
  <2> QED
    BY <1>1, <2>1, <2>2
<1> QED
  BY <1>3 DEF F

(* What a character's pointers say and what the parties say is the same, whatever the
   order of packets, scripts, timeouts, logons, logoffs and restarts: one role in one
   party, and a timeout for every invitation. *)
THEOREM CharactersAgree == ASSUME Misuse = {} PROVE Spec => []RolesAgree
<1>1. IInv => RolesAgree
  <2> SUFFICES ASSUME IInv PROVE RolesAgree
    OBVIOUS
  <2>1. /\ MembersFit(parties, party, party_of) /\ CandidatesFit(parties, party, candidate_of)
        /\ OfflineFit(parties, party, offline_mem_of)
        /\ Single(party_of, candidate_of, offline_mem_of) /\ InvitedIsTimed
    BY DEF IInv, FitNow, Fit
  <2>2. MembersAgree /\ CandidatesAgree /\ OfflineAgree
    BY <2>1 DEF MembersFit, CandidatesFit, OfflineFit, MembersAgree, CandidatesAgree,
                OfflineAgree
  <2>3. OneRole
    <3> SUFFICES ASSUME NEW c \in Chars
                 PROVE  Cardinality({f \in {<< 1, party_of[c] >>, << 2, candidate_of[c] >>,
                                       << 3, offline_mem_of[c] >>} : f[2] # None}) <= 1
      BY DEF OneRole
    <3>1. /\ party_of[c] # None => candidate_of[c] = None /\ offline_mem_of[c] = None
          /\ candidate_of[c] # None => offline_mem_of[c] = None
      BY <2>1 DEF Single
    <3> QED
      BY <3>1, OneOfThree
  <2> QED
    BY <2>1, <2>2, <2>3 DEF RolesAgree
<1> QED
  BY <1>1, Invariant, PTL

(* Every party has a leader who is a member of it, and by whom disband_party() finds
   it, somebody to lead, and no more than its limit. *)
THEOREM PartiesLast == ASSUME Misuse = {} PROVE Spec => []PartiesViable
<1>1. IInv => PartiesViable
  BY DEF IInv, AllGood, Good, PartiesViable, LeaderIsMember, NoLoneParty, WithinLimit
<1> QED
  BY <1>1, Invariant, PTL

(* A party of three or more ends only when its leader leaves it, when a script disbands
   it, or when the server stops. *)
THEOREM LargePartiesEnd == ASSUME Misuse = {} PROVE Spec => LargePartiesLast
<1>1. ASSUME IInv, [Next]_vars
      PROVE  [\A p \in parties :
                 Len(party[p].members) > 2 /\ p \notin parties'
                    => \/ handle_remove(party[p].leader, party[p].leader)
                       \/ DisbandParty(p) \/ Restart]_vars
  <2>1. CASE UNCHANGED vars
    BY <2>1
  <2>2. CASE Next
    <3> SUFFICES ASSUME NEW p \in parties, Len(party[p].members) > 2, p \notin parties'
                 PROVE  \/ handle_remove(party[p].leader, party[p].leader)
                        \/ DisbandParty(p) \/ Restart
      OBVIOUS
    <3>1. Len(party[p].members) \in Nat
      BY <1>1, TypeParts DEF IInv, TypedNow, Typed, Records
    <3>2. Endings
      BY <1>1, <2>2, NextKeeps
    <3> QED
      BY <3>1, <3>2 DEF Endings
  <2> QED
    BY <1>1, <2>1, <2>2
<1> QED
  BY <1>1, Invariant, PTL DEF Spec, LargePartiesLast
=============================================================================
