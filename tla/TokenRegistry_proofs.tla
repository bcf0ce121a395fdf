----------------------- MODULE TokenRegistry_proofs -------------------------
(***************************************************************************)
(* What every edit of the registry preserves.  That an edit which was      *)
(* foreseen is reverted only for a reason needs that what it asserted still*)
(* holds as long as nothing overtook it, and that the list of the contract *)
(* has each registered token once.                                         *)
(***************************************************************************)
EXTENDS TokenRegistry, FiniteSetTheorems, TLAPS

ListedOnce == \A i, j \in DOMAIN listed : listed[i] = listed[j] => i = j
ListedKnown == \A i \in DOMAIN listed : registry[listed[i]] # None
KnownListed == \A t \in Tokens : registry[t] # None => \E i \in DOMAIN listed : listed[i] = t

\* What an edit asserted is still so.
Foreseen(e) ==
    /\ AssertionsHold(e)
    /\ EditOf[e].op = "remove" => edit[e].index = Position(EditOf[e].token)

SentForeseen ==
    \A e \in Edits : edit[e].pc = "sent" /\ ~edit[e].overtaken => Foreseen(e)

RegistryInv ==
    /\ RegistryTypeOK
    /\ ListedOnce /\ ListedKnown /\ KnownListed
    /\ SentForeseen /\ RevertedWasOvertaken

LEMMA PositionListed ==
  ASSUME NEW t, listed \in Seq(Tokens)
  PROVE  /\ Position(t) \in Nat
         /\ \/ Position(t) = 0 /\ \A i \in DOMAIN listed : listed[i] # t
            \/ Position(t) \in DOMAIN listed /\ listed[Position(t)] = t
<1>1. DOMAIN listed = 1 .. Len(listed) /\ Len(listed) \in Nat
  OBVIOUS
<1>2. CASE \E i \in DOMAIN listed : listed[i] = t
  <2>1. Position(t) \in DOMAIN listed /\ listed[Position(t)] = t
    BY <1>2, Zenon DEF Position
  <2> QED
    BY <1>1, <2>1
<1>3. CASE ~ \E i \in DOMAIN listed : listed[i] = t
  BY <1>3 DEF Position
<1> QED
  BY <1>2, <1>3

LEMMA RegistryInvInit == RegistryInit => RegistryInv
<1> SUFFICES ASSUME RegistryInit PROVE RegistryInv
  OBVIOUS
<1> DEFINE S == {t \in Tokens : FirstSymbol[t] # None}
<1>1. IsFiniteSet(S)
  BY FS_Subset, RegistryAssumption DEF RegistryAssumption
<1>2. Cardinality(S) \in Nat /\ ExistsBijection(1 .. Cardinality(S), S)
  BY <1>1, FS_CardinalityType
<1>3. \E f \in [1 .. Cardinality(S) -> S] : IsInjective(f)
  BY <1>2 DEF ExistsBijection, Bijection, Injection
<1>4. listed \in [1 .. Cardinality(S) -> S] /\ IsInjective(listed)
  BY <1>3 DEF RegistryInit, SetToSeq
<1>5. listed \in Seq(Tokens)
  <2>1. listed \in [1 .. Cardinality(S) -> Tokens]
    BY <1>4
  <2> HIDE DEF S
  <2> QED
    BY <1>2, <2>1
<1>6. ListedOnce /\ ListedKnown
  BY <1>4 DEF ListedOnce, ListedKnown, IsInjective, RegistryInit
<1>9. KnownListed
  <2>1. listed \in Injection(1 .. Cardinality(S), S)
    BY <1>4 DEF Injection
  <2>2. Cardinality(1 .. Cardinality(S)) = Cardinality(S)
    BY <1>2, FS_Interval
  <2>3. listed \in Surjection(1 .. Cardinality(S), S)
    BY <1>1, <2>1, <2>2, FS_Injection
  <2> QED
    BY <1>4, <2>3 DEF KnownListed, Surjection, RegistryInit
<1>7. edit \in [Edits -> EditStates] /\ registry \in [Tokens -> Symbols \cup {None}]
  BY RegistryAssumption DEF RegistryAssumption, RegistryInit, NewEdit, EditStates
<1>8. \A e \in Edits : edit[e].pc = "idle"
  BY DEF RegistryInit, NewEdit
<1> QED
  BY <1>5, <1>6, <1>7, <1>8, <1>9
  DEF RegistryInv, RegistryTypeOK, SentForeseen, RevertedWasOvertaken

LEMMA SendEditInv ==
  ASSUME RegistryInv, NEW e \in Edits, SendEdit(e)
  PROVE  RegistryInv'
<1> USE DEF RegistryInv, RegistryTypeOK
<1>1. EditOf[e] \in [op : EditKinds, token : Tokens, symbol : Symbols, owner : BOOLEAN]
  BY RegistryAssumption DEF RegistryAssumption
<1>2. Position(EditOf[e].token) \in Nat
  BY PositionListed
<1>3. edit' \in [Edits -> EditStates]
  BY <1>2 DEF SendEdit, EditStates
<1>4. UNCHANGED <<registry, listed>> /\ ListedOnce' /\ ListedKnown' /\ KnownListed'
  BY DEF SendEdit, ListedOnce, ListedKnown, KnownListed
<1>5. \A f \in Edits : AssertionsHold(f)' <=> AssertionsHold(f)
  BY <1>4 DEF AssertionsHold, Known, SymbolFree
<1>6. \A t : Position(t)' = Position(t)
  BY <1>4 DEF Position
<1>7. \A f \in Edits : f # e => edit'[f] = edit[f]
  BY DEF SendEdit
<1>8. SentForeseen'
  <2> SUFFICES ASSUME NEW f \in Edits, edit'[f].pc = "sent", ~edit'[f].overtaken
               PROVE  Foreseen(f)'
    BY DEF SentForeseen
  <2>1. CASE f = e
    BY <2>1, <1>5, <1>6 DEF Foreseen, SendEdit
  <2>2. CASE f # e
    BY <2>2, <1>5, <1>6, <1>7 DEF Foreseen, SentForeseen
  <2> QED
    BY <2>1, <2>2
<1>9. RevertedWasOvertaken'
  BY <1>7 DEF RevertedWasOvertaken, SendEdit
<1> QED
  BY <1>3, <1>4, <1>8, <1>9

\* The token that is removed leaves the list, and no other does.
LEMMA WithoutListed ==
  ASSUME RegistryTypeOK, ListedOnce, NEW t \in Tokens, Position(t) # 0
  PROVE  /\ Without(t) \in Seq(Tokens)
         /\ \A i, j \in DOMAIN Without(t) : Without(t)[i] = Without(t)[j] => i = j
         /\ \A i \in DOMAIN Without(t) :
              Without(t)[i] # t /\ \E k \in DOMAIN listed : Without(t)[i] = listed[k]
         /\ \A k \in DOMAIN listed :
              listed[k] # t => \E i \in DOMAIN Without(t) : Without(t)[i] = listed[k]
<1> DEFINE n == Len(listed)
           p == Position(t)
           moved == [listed EXCEPT ![p] = listed[n]]
<1>1. listed \in [1 .. n -> Tokens] /\ n \in Nat /\ DOMAIN listed = 1 .. n
  BY DEF RegistryTypeOK
<1>2. p \in 1 .. n /\ listed[p] = t /\ n >= 1
  BY <1>1, PositionListed DEF RegistryTypeOK
<1>3. \A i, j \in 1 .. n : listed[i] = listed[j] => i = j
  BY <1>1 DEF ListedOnce
<1>4. moved \in Seq(Tokens) /\ Len(moved) = n
  BY <1>1, <1>2
<1>5. \A i \in 1 .. n - 1 : moved[i] = IF i = p THEN listed[n] ELSE listed[i]
  BY <1>1, <1>2
<1> HIDE DEF moved
<1>6. /\ Without(t) \in Seq(Tokens)
      /\ DOMAIN Without(t) = 1 .. n - 1
      /\ \A i \in 1 .. n - 1 : Without(t)[i] = moved[i]
  BY <1>1, <1>2, <1>4 DEF Without, moved
<1>7. \A i \in 1 .. n - 1 : Without(t)[i] = IF i = p THEN listed[n] ELSE listed[i]
  BY <1>5, <1>6
<1> HIDE DEF n, p
<1>8. ASSUME NEW k \in 1 .. n, listed[k] # t
      PROVE  \E i \in 1 .. n - 1 : Without(t)[i] = listed[k]
  <2>1. CASE k = n
    BY <1>1, <1>2, <1>7, <1>8, <2>1
  <2>2. CASE k # n
    BY <1>1, <1>2, <1>7, <1>8, <2>2
  <2> QED
    BY <2>1, <2>2
<1>9. ASSUME NEW i \in 1 .. n - 1
      PROVE  Without(t)[i] # t /\ \E k \in 1 .. n : Without(t)[i] = listed[k]
  BY <1>1, <1>2, <1>3, <1>7
<1>10. ASSUME NEW i \in 1 .. n - 1, NEW j \in 1 .. n - 1, Without(t)[i] = Without(t)[j]
       PROVE  i = j
  BY <1>1, <1>2, <1>3, <1>7, <1>10
<1> QED
  BY <1>1, <1>6, <1>8, <1>9, <1>10

LEMMA MineEditInv ==
  ASSUME RegistryInv, NEW e \in Edits, MineEdit(e)
  PROVE  RegistryInv'
<1> USE DEF RegistryInv, RegistryTypeOK
<1> DEFINE t == EditOf[e].token
           op == EditOf[e].op
<1>1. EditOf[e] \in [op : EditKinds, token : Tokens, symbol : Symbols, owner : BOOLEAN]
  BY RegistryAssumption DEF RegistryAssumption
<1>2. None \notin Symbols
  BY RegistryAssumption DEF RegistryAssumption
<1>3. CASE Accepted(e)
  <2>1. op \in {"add", "remove", "rename", "annotate"} /\ t \in Tokens
    BY <1>1 DEF EditKinds
  <2>2. /\ registry' = [registry EXCEPT ![t] =
              CASE op \in {"add", "rename"} -> EditOf[e].symbol
                [] op = "remove" -> None
                [] op = "annotate" -> registry[t]]
        /\ listed' = CASE op = "add" -> Append(listed, t)
                       [] op = "remove" -> Without(t)
                       [] OTHER -> listed
    BY <1>3 DEF MineEdit
  <2>3. registry' \in [Tokens -> Symbols \cup {None}]
    BY <1>1, <2>1, <2>2
  <2>4. \A u \in Tokens : u # t => registry'[u] = registry[u]
    BY <2>1, <2>2
  <2>5. listed' \in Seq(Tokens) /\ ListedOnce' /\ ListedKnown' /\ KnownListed'
    <3>1. CASE op = "add"
      <4>1. registry[t] = None /\ registry'[t] # None
        BY <1>1, <1>2, <1>3, <2>1, <2>2, <3>1 DEF Accepted
      <4>2. listed' = Append(listed, t)
        BY <2>2, <3>1
      <4>3. \A i \in DOMAIN listed : listed[i] # t /\ listed[i] \in Tokens
        BY <4>1 DEF ListedKnown
      <4>4. /\ listed' \in Seq(Tokens)
            /\ DOMAIN listed' = 1 .. Len(listed) + 1
            /\ \A i \in DOMAIN listed' : listed'[i] = IF i \in DOMAIN listed THEN listed[i] ELSE t
            /\ \A i \in DOMAIN listed' : i \notin DOMAIN listed => i = Len(listed) + 1
        BY <2>1, <4>2
      <4> QED
        BY <2>1, <2>4, <4>1, <4>3, <4>4 DEF ListedOnce, ListedKnown, KnownListed
    <3>2. CASE op = "remove"
      <4>1. Position(t) # 0
        <5>1. \E i \in DOMAIN listed : listed[i] = t
          BY <1>3, <2>1, <3>2 DEF Accepted, KnownListed
        <5> QED
          BY <5>1, PositionListed
      <4>2. listed' = Without(t)
        BY <2>2, <3>2
      <4>3. registry'[t] = None
        BY <2>1, <2>2, <3>2
      <4> QED
        BY <2>1, <2>2, <2>4, <4>1, <4>2, <4>3, WithoutListed DEF ListedOnce, ListedKnown, KnownListed
    <3>3. CASE op \in {"rename", "annotate"}
      <4>1. listed' = listed /\ registry[t] # None /\ registry'[t] # None
        BY <1>1, <1>2, <1>3, <2>1, <2>2, <3>3 DEF Accepted
      <4> QED
        BY <2>4, <4>1 DEF ListedOnce, ListedKnown, KnownListed
    <3> QED
      BY <2>1, <3>1, <3>2, <3>3
  <2>6. edit' = [f \in Edits |->
                   CASE f = e -> [edit[e] EXCEPT !.pc = "mined"]
                     [] f # e /\ edit[f].pc = "sent" -> [edit[f] EXCEPT !.overtaken = TRUE]
                     [] OTHER -> edit[f]]
    BY <1>3 DEF MineEdit
  <2>7. edit' \in [Edits -> EditStates]
    BY <2>6 DEF EditStates
  <2>8. SentForeseen'
    BY <2>6 DEF SentForeseen, EditStates
  <2>9. RevertedWasOvertaken'
    BY <2>6 DEF RevertedWasOvertaken, EditStates
  <2> QED
    BY <2>3, <2>5, <2>7, <2>8, <2>9
<1>4. CASE ~Accepted(e)
  <2>1. edit' = [edit EXCEPT ![e].pc = "reverted"] /\ UNCHANGED <<registry, listed>>
    BY <1>4 DEF MineEdit
  <2>2. edit' \in [Edits -> EditStates]
    BY <2>1 DEF EditStates
  <2>3. ListedOnce' /\ ListedKnown' /\ KnownListed'
    BY <2>1 DEF ListedOnce, ListedKnown, KnownListed
  <2>4. \A f \in Edits : f # e => edit'[f] = edit[f]
    BY <2>1
  <2>5. /\ edit'[e].pc = "reverted" /\ edit'[e].index = edit[e].index
        /\ edit'[e].overtaken = edit[e].overtaken
    BY <2>1 DEF EditStates
  <2>6. SentForeseen'
    <3> SUFFICES ASSUME NEW f \in Edits, edit'[f].pc = "sent", ~edit'[f].overtaken
                 PROVE  Foreseen(f)'
      BY DEF SentForeseen
    <3>1. f # e /\ Foreseen(f)
      BY <2>4, <2>5 DEF SentForeseen
    <3> QED
      BY <2>1, <2>4, <3>1 DEF Foreseen, AssertionsHold, Known, SymbolFree, Position
  <2>7. RevertedWasOvertaken'
    <3>1. \/ edit[e].overtaken
          \/ op \in {"rename", "annotate"} /\ ~EditOf[e].owner
          \/ op = "remove" /\ edit[e].index = 0
      <4> SUFFICES ASSUME ~edit[e].overtaken PROVE <3>1!2 \/ <3>1!3
        OBVIOUS
      <4>1. Foreseen(e)
        BY DEF MineEdit, SentForeseen
      <4>2. CASE op = "add"
        BY <1>1, <1>4, <4>1, <4>2 DEF Foreseen, AssertionsHold, Accepted, Known
      <4>3. CASE op = "remove"
        <5>1. EditOf[e].owner /\ edit[e].index = Position(t)
          BY <4>1, <4>3 DEF Foreseen, AssertionsHold
        <5>2. registry[t] = None
          BY <1>4, <4>3, <5>1 DEF Accepted
        <5>3. Position(t) = 0
          BY <5>2, PositionListed DEF ListedKnown
        <5> QED
          BY <4>3, <5>1, <5>3
      <4>4. CASE op \in {"rename", "annotate"}
        BY <1>1, <1>4, <4>1, <4>4 DEF Foreseen, AssertionsHold, Accepted, Known
      <4> QED
        BY <1>1, <4>2, <4>3, <4>4 DEF EditKinds
    <3> QED
      BY <2>4, <2>5, <3>1 DEF RevertedWasOvertaken
  <2> QED
    BY <2>1, <2>2, <2>3, <2>6, <2>7
<1> QED
  BY <1>3, <1>4
=============================================================================
