------------------------ MODULE TargetDiscovery_proofs ------------------------
(***************************************************************************)
(* Theorems about TargetDiscovery, for every account, every deployment and *)
(* any number of regions, pages, changes and restarts.                     *)
(***************************************************************************)
EXTENDS TargetDiscovery, FunctionTheorems, SequenceTheorems, FiniteSetTheorems, TLAPS

-------------------------------------------------------------------------------
(* The inductive invariant. *)

Places == {"validate", "regions", "search", "deduplicate", "listed", "failed"}

\* Types, and how long the lists are.
ListInv ==
    /\ requested \in TargetRegions
    /\ enabled \in EnabledRegions
    /\ tagged \subseteq alive /\ alive \subseteq Arns /\ steady \subseteq tagged
    /\ searchRegions \in {<<>>, requested} \cup EnabledRegions
    /\ found \in Seq(Seq(Arns))
    /\ Len(found) <= Len(searchRegions)
    /\ searches \in 0 .. Len(found)
    /\ discoveredResources \in Seq(Arns)
    /\ collected \in Seq(Arns)
    /\ looked \in 0 .. Len(discoveredResources)
    /\ targets \subseteq Arns
    /\ pc \in Places

\* What a place in the handler says of what it holds.
PlaceInv ==
    /\ IsInjective(searchRegions)
    /\ pc \notin {"validate", "failed"} => parseTargetRegions(requested)
    /\ searchRegions # <<>> => parseTargetRegions(requested)
    /\ pc \in {"search", "deduplicate", "listed"} => searchRegions # <<>>
    /\ pc \in {"validate", "regions"} => searches = 0 /\ discoveredResources = <<>>
    /\ pc \in {"validate", "regions", "search"} => looked = 0
    /\ pc \in {"deduplicate", "listed"} => searches = Len(searchRegions)
    /\ collected # <<>> => Searching

\* A recorded search is of its region, complete and without repetition.
SearchInv ==
    /\ \A i \in 1 .. Len(found) :
          /\ \A a \in Range(found[i]) : a.region = searchRegions[i]
          /\ \A a \in steady : a.region = searchRegions[i] => a \in Range(found[i])
          /\ IsInjective(found[i])
    /\ \A a \in Range(collected) : a.region = NextRegion
    /\ IsInjective(collected)

\* The list of the handler has what it read of the log, each resource once.
DiscoveredInv ==
    /\ \A i \in 1 .. searches : Range(found[i]) \subseteq Range(discoveredResources)
    /\ \A a \in Range(discoveredResources) : \E i \in 1 .. searches : a \in Range(found[i])
    /\ IsInjective(discoveredResources)

\* The members of a cluster that was found, too.
Members ==
    {a \in Range(discoveredResources) :
        \E c \in Range(discoveredResources) : IsClusterOf(c, a)}

DedupInv ==
    /\ DOMAIN memberOf \subseteq Dbs
    /\ \A a \in DOMAIN memberOf : memberOf[a] = ClusterOf[a]
    /\ pc = "deduplicate" =>
          \A i \in 1 .. looked :
             discoveredResources[i].type = "db" => discoveredResources[i] \in DOMAIN memberOf
    /\ pc = "listed" => targets = Range(discoveredResources) \ Members

DInv == ListInv /\ PlaceInv /\ SearchInv /\ DiscoveredInv /\ DedupInv

-------------------------------------------------------------------------------
(* Lists and sets. *)

\* SetToSeq lists a finite set, each element once.
LEMMA SetToSeqFacts ==
    ASSUME NEW S, IsFiniteSet(S)
    PROVE  /\ SetToSeq(S) \in Seq(S)
           /\ Range(SetToSeq(S)) = S
           /\ IsInjective(SetToSeq(S))
<1> DEFINE n == Cardinality(S)
           f == SetToSeq(S)
<1>1. n \in Nat /\ ExistsBijection(1 .. n, S)
  BY FS_CardinalityType
<1>2. \E g \in [1 .. n -> S] : IsInjective(g)
  BY <1>1 DEF ExistsBijection, Bijection, Injection
<1>3. f \in [1 .. n -> S] /\ IsInjective(f)
  BY <1>2 DEF SetToSeq
<1>4. f \in Seq(S)
  BY <1>1, <1>3
<1>5. f \in Bijection(1 .. n, Range(f))
  BY <1>3, Fun_InjMeansBijImage DEF Injection
<1>6. Cardinality(Range(f)) = n
  BY <1>1, <1>5, FS_CountingElements DEF ExistsBijection
<1>7. Range(f) \in SUBSET S
  BY <1>4, RangeOfSeq
<1>8. Range(f) = S
  BY <1>6, <1>7, FS_Subset
<1> QED
  BY <1>3, <1>4, <1>8

\* One list after another repeats nothing when neither does and they share nothing.
LEMMA ConcatInjective ==
    ASSUME NEW S, NEW p \in Seq(S), NEW q \in Seq(S),
           IsInjective(p), IsInjective(q), Range(p) \cap Range(q) = {}
    PROVE  IsInjective(p \o q)
<1> DEFINE r == p \o q
<1>1. /\ r \in Seq(S)
      /\ Len(r) = Len(p) + Len(q)
      /\ \A i \in 1 .. Len(p) : r[i] = p[i]
      /\ \A i \in Len(p) + 1 .. Len(p) + Len(q) : r[i] = q[i - Len(p)]
  OBVIOUS
<1>2. DOMAIN p = 1 .. Len(p) /\ DOMAIN q = 1 .. Len(q) /\ Len(p) \in Nat /\ Len(q) \in Nat
  BY LenProperties
<1>3. \A i \in 1 .. Len(p), j \in 1 .. Len(q) : p[i] # q[j]
  BY <1>2 DEF Range
<1>4. SUFFICES ASSUME NEW i \in 1 .. Len(r), NEW j \in 1 .. Len(r), r[i] = r[j]
               PROVE  i = j
  BY <1>1 DEF IsInjective
<1>5. CASE i <= Len(p) /\ j <= Len(p)
  BY <1>1, <1>2, <1>4, <1>5 DEF IsInjective
<1>6. CASE i > Len(p) /\ j > Len(p)
  <2>1. i - Len(p) \in 1 .. Len(q) /\ j - Len(p) \in 1 .. Len(q)
    BY <1>1, <1>2, <1>6
  <2>2. q[i - Len(p)] = q[j - Len(p)]
    BY <1>1, <1>2, <1>4, <1>6
  <2>3. i - Len(p) = j - Len(p)
    BY <1>2, <2>1, <2>2 DEF IsInjective
  <2> QED
    BY <2>3, <1>1, <1>2
<1>7. CASE i <= Len(p) /\ j > Len(p)
  <2>1. i \in 1 .. Len(p) /\ j - Len(p) \in 1 .. Len(q)
    BY <1>1, <1>2, <1>7
  <2>2. p[i] = q[j - Len(p)]
    BY <1>1, <1>2, <1>4, <1>7
  <2> QED
    BY <1>3, <2>1, <2>2
<1>8. CASE i > Len(p) /\ j <= Len(p)
  <2>1. j \in 1 .. Len(p) /\ i - Len(p) \in 1 .. Len(q)
    BY <1>1, <1>2, <1>8
  <2>2. p[j] = q[i - Len(p)]
    BY <1>1, <1>2, <1>4, <1>8
  <2> QED
    BY <1>3, <2>1, <2>2
<1> QED
  BY <1>1, <1>2, <1>5, <1>6, <1>7, <1>8

\* A list with one element more, as a function of its places.
LEMMA AppendIs ==
    ASSUME NEW T, NEW s \in Seq(T), NEW e \in T
    PROVE  Append(s, e) = [i \in 1 .. (Len(s) + 1) |-> IF i <= Len(s) THEN s[i] ELSE e]
<1>1. /\ DOMAIN Append(s, e) = 1 .. (Len(s) + 1) /\ Len(s) \in Nat
      /\ \A i \in 1 .. Len(s) : Append(s, e)[i] = s[i]
      /\ Append(s, e)[Len(s) + 1] = e
      /\ Append(s, e) \in Seq(T)
  BY AppendProperties, LenProperties
<1>2. \A i \in 1 .. (Len(s) + 1) : Append(s, e)[i] = IF i <= Len(s) THEN s[i] ELSE e
  BY <1>1
<1> DEFINE f == [i \in 1 .. (Len(s) + 1) |-> IF i <= Len(s) THEN s[i] ELSE e]
<1>3. f \in Seq(T) /\ Len(f) = Len(s) + 1 /\ Len(Append(s, e)) = Len(s) + 1
  BY <1>1
<1>4. \A i \in 1 .. (Len(s) + 1) : Append(s, e)[i] = f[i]
  BY <1>2
<1> HIDE DEF f
<1>5. Append(s, e) = f
  BY <1>1, <1>3, <1>4, SeqEqual
<1> QED BY <1>5 DEF f

LEMMA EmptyFacts == /\ \A S : <<>> \in Seq(S)
                    /\ Len(<<>>) = 0
                    /\ Range(<<>>) = {}
                    /\ IsInjective(<<>>)
  BY DEF Range, IsInjective

-------------------------------------------------------------------------------
(* The invariant holds at the beginning, and every action keeps it. *)

LEMMA DiscoveryInitInv == DiscoveryInit => DInv
  BY EmptyFacts
  DEF DiscoveryInit, DInv, ListInv, PlaceInv, SearchInv, DiscoveredInv, DedupInv, Places

\* What the recorded regions are: a list without repetitions.
LEMMA RegionLists ==
    ASSUME ListInv
    PROVE  /\ searchRegions \in Seq(STRING)
           /\ requested \in Seq(STRING)
           /\ enabled \in Seq(STRING) /\ enabled # <<>> /\ IsInjective(enabled)
           /\ Len(searchRegions) \in Nat /\ Len(found) \in Nat
           /\ Len(discoveredResources) \in Nat
           /\ DOMAIN found = 1 .. Len(found)
           /\ DOMAIN searchRegions = 1 .. Len(searchRegions)
  BY RegionsAssumption, EmptyFacts DEF ListInv

LEMMA ParseRegionsInv == DInv /\ ParseRegions => DInv'
<1> SUFFICES ASSUME DInv, ParseRegions PROVE DInv'
  OBVIOUS
<1> USE DEF ParseRegions, DInv, world, listVars, memberVars
<1>1. ListInv'
  BY DEF ListInv, Places
<1>2. PlaceInv'
  BY DEF PlaceInv, Searching
<1>3. SearchInv' /\ DiscoveredInv'
  BY DEF SearchInv, DiscoveredInv, NextRegion
<1>4. DedupInv'
  BY DEF DedupInv
<1> QED
  BY <1>1, <1>2, <1>3, <1>4

LEMMA GetRegionsInv == DInv /\ GetRegions => DInv'
<1> SUFFICES ASSUME DInv, GetRegions PROVE DInv'
  OBVIOUS
<1> USE DEF GetRegions, DInv, world, listVars, memberVars
<1>1. /\ found = <<>> /\ collected = <<>>
      /\ searchRegions' \in {requested, enabled} /\ searchRegions' # <<>>
      /\ IsInjective(searchRegions') /\ pc' = "search"
   \/ /\ searchRegions' = searchRegions
      /\ pc' = "failed" \/ (pc' = "search" /\ searchRegions # <<>>)
  <2>1. CASE searchRegions = <<>> /\ pc' = "search"
    <3>1. found = <<>>
      BY <2>1, EmptyFacts, RegionLists, EmptySeq DEF ListInv
    <3>2. collected = <<>>
      BY <2>1 DEF PlaceInv, Searching
    <3>3. IsInjective(requested) /\ IsInjective(enabled) /\ enabled # <<>>
      BY RegionLists DEF PlaceInv, parseTargetRegions
    <3> QED
      BY <2>1, <3>1, <3>2, <3>3 DEF selectTargetRegions
  <2>2. CASE ~ (searchRegions = <<>> /\ pc' = "search")
    BY <2>2
  <2> QED
    BY <2>1, <2>2
<1>2. ListInv'
  <2>1. Len(found) <= Len(searchRegions')
    BY <1>1, EmptyFacts, RegionLists, LenProperties DEF ListInv
  <2> QED
    BY <1>1, <2>1 DEF ListInv, Places
<1>3. PlaceInv'
  <2>1. pc = "regions" /\ parseTargetRegions(requested) /\ requested' = requested
    BY DEF PlaceInv
  <2> QED BY <1>1, <2>1 DEF PlaceInv, Searching
<1>4. SearchInv'
  BY <1>1, EmptyFacts, RegionLists DEF SearchInv, PlaceInv, NextRegion
<1>5. DiscoveredInv'
  BY DEF DiscoveredInv
<1>6. DedupInv'
  BY <1>1 DEF DedupInv
<1> QED
  BY <1>2, <1>3, <1>4, <1>5, <1>6

\* Pushing the result of the next search onto the list of the handler.
LEMMA PushFacts ==
    ASSUME DInv, searches < Len(searchRegions),
           NEW arns \in Seq(Arns), IsInjective(arns),
           \A a \in Range(arns) : a.region = NextRegion
    PROVE  /\ discoveredResources \o arns \in Seq(Arns)
           /\ Len(discoveredResources) <= Len(discoveredResources \o arns)
           /\ Range(discoveredResources \o arns) = Range(discoveredResources) \cup Range(arns)
           /\ IsInjective(discoveredResources \o arns)
<1> USE DEF DInv
<1>1. discoveredResources \in Seq(Arns)
  BY DEF ListInv
<1>2. Range(discoveredResources \o arns) = Range(discoveredResources) \cup Range(arns)
  BY <1>1, RangeConcatenation
<1>3. Range(discoveredResources) \cap Range(arns) = {}
  <2>1. SUFFICES ASSUME NEW a \in Range(discoveredResources), a \in Range(arns)
                 PROVE  FALSE
    OBVIOUS
  <2>2. PICK i \in 1 .. searches : a \in Range(found[i])
    BY DEF DiscoveredInv
  <2>3. i \in 1 .. Len(found) /\ i \in DOMAIN searchRegions /\ searches + 1 \in DOMAIN searchRegions
        /\ i # searches + 1
    BY RegionLists DEF ListInv
  <2>4. searchRegions[i] = searchRegions[searches + 1]
    BY <2>1, <2>2, <2>3 DEF SearchInv, NextRegion
  <2> QED
    BY <2>3, <2>4 DEF PlaceInv, IsInjective
<1>4. IsInjective(discoveredResources \o arns)
  BY <1>1, <1>3, ConcatInjective DEF DiscoveredInv
<1>5. /\ discoveredResources \o arns \in Seq(Arns)
      /\ Len(discoveredResources) <= Len(discoveredResources \o arns)
  BY <1>1
<1> QED
  BY <1>2, <1>4, <1>5

LEMMA ReplaySearchInv == DInv /\ ReplaySearch => DInv'
<1> SUFFICES ASSUME DInv, ReplaySearch PROVE DInv'
  OBVIOUS
<1> DEFINE k == searches + 1
<1> USE DEF ReplaySearch, Pushes, DInv, world, memberVars
<1>1. /\ k \in 1 .. Len(found) /\ searches < Len(searchRegions)
      /\ found[k] \in Seq(Arns)
  BY RegionLists DEF ListInv
<1>2. \A a \in Range(found[k]) : a.region = NextRegion
  BY <1>1 DEF SearchInv, NextRegion
<1>3. /\ discoveredResources' \in Seq(Arns)
      /\ Len(discoveredResources) <= Len(discoveredResources')
      /\ Range(discoveredResources') = Range(discoveredResources) \cup Range(found[k])
      /\ IsInjective(discoveredResources')
  BY <1>1, <1>2, PushFacts DEF SearchInv
<1>4. collected = <<>>
  BY RegionLists DEF PlaceInv, Searching
<1>5. Len(discoveredResources') \in Nat
  BY <1>3, LenProperties
<1>6. ListInv'
  BY <1>1, <1>3, <1>5, RegionLists DEF ListInv
<1>7. PlaceInv'
  BY <1>4 DEF PlaceInv, Searching
<1>8. SearchInv'
  BY <1>4, EmptyFacts DEF SearchInv
<1>9. DiscoveredInv'
  <2>1. \A i \in 1 .. k : i = k \/ i \in 1 .. searches
    BY <1>1, RegionLists DEF ListInv
  <2>2. \A i \in 1 .. k : Range(found[i]) \subseteq Range(discoveredResources')
    BY <2>1, <1>3 DEF DiscoveredInv
  <2>3. \A a \in Range(discoveredResources') : \E i \in 1 .. k : a \in Range(found[i])
    <3>1. 1 .. searches \subseteq 1 .. k /\ k \in 1 .. k
      BY <1>1, RegionLists DEF ListInv
    <3> QED
      BY <3>1, <1>3 DEF DiscoveredInv
  <2> QED
    BY <1>3, <2>2, <2>3 DEF DiscoveredInv
<1>10. DedupInv'
  BY DEF DedupInv
<1> QED
  BY <1>6, <1>7, <1>8, <1>9, <1>10

\* What a search has still to return can be listed.
LEMMA RemainingFacts ==
    ASSUME DInv, Searching, NEW page \in SUBSET Remaining
    PROVE  /\ SetToSeq(page) \in Seq(Arns)
           /\ Range(SetToSeq(page)) = page
           /\ IsInjective(SetToSeq(page))
           /\ collected \o SetToSeq(page) \in Seq(Arns)
           /\ Range(collected \o SetToSeq(page)) = Range(collected) \cup page
           /\ IsInjective(collected \o SetToSeq(page))
           /\ \A a \in Range(collected \o SetToSeq(page)) : a.region = NextRegion
<1>1. page \subseteq Arns /\ IsFiniteSet(page)
  BY ArnsAssumption, FS_Subset DEF DInv, ListInv, Remaining
<1>2. /\ SetToSeq(page) \in Seq(page)
      /\ Range(SetToSeq(page)) = page
      /\ IsInjective(SetToSeq(page))
  BY <1>1, SetToSeqFacts
<1>3. SetToSeq(page) \in Seq(Arns)
  BY <1>1, <1>2, SeqMonotonic
<1>4. collected \in Seq(Arns) /\ IsInjective(collected)
  BY DEF DInv, ListInv, SearchInv
<1>5. Range(collected \o SetToSeq(page)) = Range(collected) \cup page
  BY <1>2, <1>3, <1>4, RangeConcatenation
<1>6. Range(collected) \cap Range(SetToSeq(page)) = {}
  BY <1>2 DEF Remaining
<1>7. IsInjective(collected \o SetToSeq(page))
  BY <1>2, <1>3, <1>4, <1>6, ConcatInjective
<1>8. \A a \in Range(collected \o SetToSeq(page)) : a.region = NextRegion
  BY <1>5 DEF DInv, SearchInv, Remaining
<1>9. collected \o SetToSeq(page) \in Seq(Arns)
  BY <1>3, <1>4
<1> QED
  BY <1>2, <1>3, <1>5, <1>7, <1>8, <1>9

LEMMA ReadPageInv == DInv /\ ReadPage => DInv'
<1> SUFFICES ASSUME DInv, ReadPage PROVE DInv'
  OBVIOUS
<1>1. PICK page \in SUBSET Remaining : collected' = collected \o SetToSeq(page)
  BY DEF ReadPage
<1>2. Searching
  BY DEF ReadPage
<1>3. /\ collected' \in Seq(Arns)
      /\ IsInjective(collected')
      /\ \A a \in Range(collected') : a.region = NextRegion
  BY <1>1, <1>2, RemainingFacts
<1> USE DEF ReadPage, DInv, world, listVars, memberVars
<1>4. ListInv'
  BY <1>3 DEF ListInv
<1>5. PlaceInv'
  BY <1>2 DEF PlaceInv, Searching
<1>6. SearchInv'
  BY <1>3 DEF SearchInv, NextRegion
<1>7. DiscoveredInv' /\ DedupInv'
  BY DEF DiscoveredInv, DedupInv, Searching
<1> QED
  BY <1>4, <1>5, <1>6, <1>7

LEMMA ReadLastPageInv == DInv /\ ReadLastPage => DInv'
<1> SUFFICES ASSUME DInv, ReadLastPage PROVE DInv'
  OBVIOUS
<1> DEFINE result == collected \o SetToSeq(Remaining)
           k == searches + 1
<1>1. Searching /\ found' = Append(found, result) /\ Pushes(result) /\ collected' = <<>>
      /\ UNCHANGED <<world, searchRegions, targets, pc, memberVars>>
  BY DEF ReadLastPage
<1>2. /\ result \in Seq(Arns)
      /\ Range(result) = Range(collected) \cup Remaining
      /\ IsInjective(result)
      /\ \A a \in Range(result) : a.region = NextRegion
  BY <1>1, RemainingFacts
<1>3. k = Len(found) + 1 /\ Len(found) \in Nat /\ Len(searchRegions) \in Nat
      /\ searches < Len(searchRegions)
  BY <1>1, RegionLists DEF DInv, ListInv, Searching
<1>4. /\ found' \in Seq(Seq(Arns))
      /\ Len(found') = k
      /\ \A i \in 1 .. Len(found) : found'[i] = found[i]
      /\ found'[k] = result
  BY <1>1, <1>2, <1>3, AppendProperties DEF DInv, ListInv
<1>5. /\ discoveredResources' \in Seq(Arns)
      /\ Len(discoveredResources) <= Len(discoveredResources')
      /\ Range(discoveredResources') = Range(discoveredResources) \cup Range(result)
      /\ IsInjective(discoveredResources')
  BY <1>1, <1>2, <1>3, PushFacts DEF Pushes
<1>6. Len(discoveredResources') \in Nat
  BY <1>5, LenProperties
<1>7. \A i \in 1 .. k : i = k \/ i \in 1 .. Len(found)
  BY <1>3
<1> HIDE DEF result, k
<1>8. searches' = k /\ k \in Nat
  BY <1>1, <1>3 DEF k, Pushes
<1>9. ListInv'
  BY <1>1, <1>3, <1>4, <1>5, <1>6, <1>8, EmptyFacts, RegionLists
  DEF DInv, ListInv, world, memberVars, k
<1>10. PlaceInv'
  BY <1>1 DEF DInv, PlaceInv, Searching, world, memberVars
<1>11. SearchInv'
  <2>1. steady' = steady /\ searchRegions' = searchRegions /\ steady \subseteq tagged
    BY <1>1 DEF world, DInv, ListInv
  <2>2. \A a \in steady : a.region = searchRegions[k] => a \in Range(result)
    BY <1>2, <2>1 DEF Remaining, NextRegion, k
  <2>3. \A a \in Range(result) : a.region = searchRegions[k]
    BY <1>2 DEF NextRegion, k
  <2>4. ASSUME NEW i \in 1 .. Len(found')
        PROVE  /\ \A a \in Range(found'[i]) : a.region = searchRegions'[i]
               /\ \A a \in steady' : a.region = searchRegions'[i] => a \in Range(found'[i])
               /\ IsInjective(found'[i])
    <3>1. CASE i = k
      BY <3>1, <1>2, <1>4, <2>1, <2>2, <2>3
    <3>2. CASE i \in 1 .. Len(found)
      BY <3>2, <1>4, <2>1 DEF DInv, SearchInv
    <3> QED
      BY <1>4, <1>7, <3>1, <3>2
  <2>5. (\A a \in Range(collected) : a.region = NextRegion)' /\ IsInjective(collected')
    BY <1>1, EmptyFacts
  <2> QED
    BY <2>4, <2>5 DEF SearchInv
<1>12. DiscoveredInv'
  <2>1. searches = Len(found) /\ k \in 1 .. k /\ 1 .. Len(found) \subseteq 1 .. k
    BY <1>1, <1>3 DEF Searching
  <2>2. \A i \in 1 .. k : Range(found'[i]) \subseteq Range(discoveredResources')
    <3>1. TAKE i \in 1 .. k
    <3>2. CASE i = k
      BY <3>2, <1>4, <1>5
    <3>3. CASE i \in 1 .. Len(found)
      BY <3>3, <2>1, <1>4, <1>5 DEF DInv, DiscoveredInv
    <3> QED
      BY <1>7, <3>2, <3>3
  <2>3. ASSUME NEW a \in Range(discoveredResources')
        PROVE  \E i \in 1 .. k : a \in Range(found'[i])
    <3>1. CASE a \in Range(result)
      BY <3>1, <1>4, <2>1
    <3>2. CASE a \in Range(discoveredResources)
      <4>1. PICK i \in 1 .. searches : a \in Range(found[i])
        BY <3>2 DEF DInv, DiscoveredInv
      <4> QED
        BY <4>1, <2>1, <1>4
    <3> QED
      BY <1>5, <3>1, <3>2
  <2> QED
    BY <1>5, <1>8, <2>2, <2>3 DEF DiscoveredInv
<1>13. DedupInv'
  BY <1>1 DEF DInv, DedupInv, Searching, memberVars
<1> QED
  BY <1>9, <1>10, <1>11, <1>12, <1>13 DEF DInv

LEMMA EndSearchInv == DInv /\ EndSearch => DInv'
<1> SUFFICES ASSUME DInv, EndSearch PROVE DInv'
  OBVIOUS
<1> USE DEF EndSearch, DInv, world, listVars, memberVars
<1>1. collected = <<>>
  BY DEF PlaceInv, Searching
<1>2. ListInv'
  BY DEF ListInv, Places
<1>3. PlaceInv'
  BY <1>1 DEF PlaceInv, Searching
<1>4. SearchInv' /\ DiscoveredInv'
  BY DEF SearchInv, DiscoveredInv, NextRegion
<1>5. looked = 0
  BY DEF PlaceInv
<1>6. DedupInv'
  BY <1>5 DEF DedupInv
<1> QED
  BY <1>2, <1>3, <1>4, <1>6

LEMMA DescribeMemberInv == DInv /\ DescribeMember => DInv'
<1> SUFFICES ASSUME DInv, DescribeMember PROVE DInv'
  OBVIOUS
<1> USE DEF DescribeMember, Describing, DInv, world, listVars
<1>1. looked + 1 \in 1 .. Len(discoveredResources)
  BY RegionLists DEF ListInv
<1>2. NextArn \in Arns
  BY <1>1, ElementOfSeq DEF NextArn, ListInv
<1>3. ListInv'
  BY <1>1, RegionLists DEF ListInv
<1>4. PlaceInv'
  BY DEF PlaceInv, Searching
<1>5. SearchInv' /\ DiscoveredInv'
  BY DEF SearchInv, DiscoveredInv, NextRegion
<1>6. /\ DOMAIN memberOf \subseteq DOMAIN memberOf'
      /\ NextArn.type = "db" => NextArn \in DOMAIN memberOf'
      /\ DOMAIN memberOf' \subseteq Dbs
      /\ \A a \in DOMAIN memberOf' : memberOf'[a] = ClusterOf[a]
  BY <1>2 DEF DedupInv, Dbs
<1>7. \A i \in 1 .. looked + 1 : i = looked + 1 \/ i \in 1 .. looked
  BY DEF ListInv
<1>8. \A i \in 1 .. looked + 1 :
         discoveredResources[i].type = "db" => discoveredResources[i] \in DOMAIN memberOf'
  BY <1>6, <1>7 DEF DedupInv, NextArn
<1>9. DedupInv'
  BY <1>6, <1>8 DEF DedupInv
<1> QED
  BY <1>3, <1>4, <1>5, <1>9

LEMMA MemberMissingInv == DInv /\ MemberMissing => DInv'
<1> SUFFICES ASSUME DInv, MemberMissing PROVE DInv'
  OBVIOUS
<1> USE DEF MemberMissing, Describing, DInv, world, listVars, memberVars
<1>1. ListInv' /\ PlaceInv'
  BY DEF ListInv, Places, PlaceInv, Searching
<1>2. SearchInv' /\ DiscoveredInv' /\ DedupInv'
  BY DEF SearchInv, DiscoveredInv, NextRegion, DedupInv
<1> QED
  BY <1>1, <1>2

\* The keys of the clusters that were found decide whether a db is left out.
LEMMA KeyFacts ==
    ASSUME ListInv, NEW a \in Range(discoveredResources), a.type = "db"
    PROVE  shouldExcludeClusterMemberDb(a.region, ClusterOf[a], ClusterKeys)
              <=> \E c \in Range(discoveredResources) : IsClusterOf(c, a)
<1>1. \A c \in Range(discoveredResources) : c.identifier # ""
  BY ArnsAssumption, RangeOfSeq DEF ListInv
<1>2. buildClusterKey(a.region, ClusterOf[a]) \in ClusterKeys
         <=> \E c \in Range(discoveredResources) :
                /\ c.type = "cluster"
                /\ buildClusterKey(c.region, c.identifier) = buildClusterKey(a.region, ClusterOf[a])
  BY DEF ClusterKeys, collectClusterKeysFromArns
<1> QED
  BY <1>1, <1>2 DEF shouldExcludeClusterMemberDb, buildClusterKey, IsClusterOf

LEMMA DeduplicateInv == DInv /\ Deduplicate => DInv'
<1> SUFFICES ASSUME DInv, Deduplicate PROVE DInv'
  OBVIOUS
<1> USE DEF Deduplicate, DInv, world, listVars, memberVars
<1>1. Range(discoveredResources) \subseteq Arns
  BY RangeOfSeq DEF ListInv
<1>2. targets' = Range(discoveredResources) \ Members
  <2>1. CASE ClusterKeys = {}
    <3>1. \A c \in Range(discoveredResources) : c.type # "cluster"
      BY <2>1 DEF ClusterKeys, collectClusterKeysFromArns
    <3>2. Members = {}
      BY <3>1 DEF Members, IsClusterOf
    <3> QED
      BY <2>1, <3>2
  <2>2. CASE ClusterKeys # {}
    <3>1. \A a \in Range(discoveredResources) :
             a.type = "db" => a \in DOMAIN memberOf /\ memberOf[a] = ClusterOf[a]
      <4>1. Range(discoveredResources)
               = {discoveredResources[i] : i \in 1 .. Len(discoveredResources)}
        BY RangeEquality DEF ListInv
      <4> QED
        BY <2>2, <4>1 DEF DedupInv
    <3>2. \A a \in Range(discoveredResources) :
             (a.type = "db" => ~ shouldExcludeClusterMemberDb(a.region, memberOf[a], ClusterKeys))
                <=> a \notin Members
      BY <3>1, KeyFacts DEF Members, IsClusterOf
    <3>3. targets' = filterClusterMemberDbs(discoveredResources, memberOf, ClusterKeys)
      BY <2>2
    <3> QED
      BY <3>2, <3>3 DEF filterClusterMemberDbs
  <2> QED
    BY <2>1, <2>2
<1>3. ListInv'
  BY <1>1, <1>2 DEF ListInv, Places
<1>4. PlaceInv'
  BY DEF PlaceInv, Searching
<1>5. SearchInv' /\ DiscoveredInv'
  BY DEF SearchInv, DiscoveredInv, NextRegion
<1>6. DedupInv'
  BY <1>2 DEF DedupInv, Members
<1> QED
  BY <1>3, <1>4, <1>5, <1>6

LEMMA RestartInv == DInv /\ Restart => DInv'
<1> SUFFICES ASSUME DInv, Restart PROVE DInv'
  OBVIOUS
<1> USE DEF Restart, DInv
<1>1. ListInv'
  BY EmptyFacts, RegionLists DEF ListInv, Places
<1>2. PlaceInv' /\ SearchInv'
  BY EmptyFacts DEF PlaceInv, SearchInv
<1>3. DiscoveredInv' /\ DedupInv'
  BY EmptyFacts DEF DiscoveredInv, DedupInv
<1> QED
  BY <1>1, <1>2, <1>3

LEMMA WorldChangesInv == DInv /\ WorldChanges => DInv'
<1> SUFFICES ASSUME DInv, WorldChanges PROVE DInv'
  OBVIOUS
<1>1. /\ tagged' \subseteq alive' /\ alive' \subseteq Arns
      /\ steady' \subseteq tagged' /\ steady' \subseteq steady
      /\ enabled' \in EnabledRegions
  BY DEF WorldChanges, DInv, ListInv
<1>2. UNCHANGED <<requested, searchRegions, found, targets, pc, searches,
                  discoveredResources, collected, looked, memberOf>>
  BY DEF WorldChanges, listVars, memberVars
<1>3. ListInv'
  BY <1>1, <1>2 DEF DInv, ListInv
<1>4. PlaceInv'
  BY <1>2 DEF DInv, PlaceInv, Searching
<1>5. SearchInv'
  BY <1>1, <1>2 DEF DInv, SearchInv, NextRegion
<1>6. DiscoveredInv' /\ DedupInv'
  BY <1>2 DEF DInv, DiscoveredInv, DedupInv, Members
<1> QED
  BY <1>3, <1>4, <1>5, <1>6 DEF DInv

LEMMA DiscoveryStepInv == DInv /\ [DiscoveryNext]_discoveryVars => DInv'
<1>1. DInv /\ UNCHANGED discoveryVars => DInv'
  <2> SUFFICES ASSUME DInv, UNCHANGED discoveryVars PROVE DInv'
    OBVIOUS
  <2> USE DEF discoveryVars, world, listVars, memberVars, DInv
  <2>1. ListInv' /\ PlaceInv'
    BY DEF ListInv, PlaceInv, Searching
  <2>2. SearchInv' /\ DiscoveredInv' /\ DedupInv'
    BY DEF SearchInv, NextRegion, DiscoveredInv, DedupInv, Members
  <2> QED
    BY <2>1, <2>2
<1> QED
  BY <1>1, ParseRegionsInv, GetRegionsInv, ReplaySearchInv, ReadPageInv, ReadLastPageInv,
     EndSearchInv, DescribeMemberInv, MemberMissingInv, DeduplicateInv, RestartInv,
     WorldChangesInv
  DEF DiscoveryNext, Over

LEMMA DiscoveryInvariant == DiscoverySpec => []DInv
  BY DiscoveryInitInv, DiscoveryStepInv, PTL DEF DiscoverySpec

-------------------------------------------------------------------------------
(* The theorems. *)

\* Discovery is type-correct, for every account and deployment.
THEOREM DiscoveryTypeCorrect == DiscoverySpec => []DiscoveryTypeOK
<1>1. DInv => DiscoveryTypeOK
  <2> SUFFICES ASSUME DInv PROVE DiscoveryTypeOK
    OBVIOUS
  <2>1. \A i \in DOMAIN found : Range(found[i]) \subseteq Arns
    BY RegionLists, RangeOfSeq DEF DInv, ListInv
  <2>2. Range(discoveredResources) \subseteq Arns /\ Range(collected) \subseteq Arns
    BY RangeOfSeq DEF DInv, ListInv
  <2> QED
    BY <2>1, <2>2 DEF DInv, ListInv, DedupInv, DiscoveryTypeOK, Places
<1> QED
  BY <1>1, DiscoveryInvariant, PTL

\* Every recorded search is of the region at its place, and the list of targets
\* comes from all of them.
THEOREM SearchesAreOfTheirRegions == DiscoverySpec => []SearchesMatchRegions
<1>1. DInv => SearchesMatchRegions
  BY RegionLists DEF DInv, SearchInv, PlaceInv, SearchesMatchRegions
<1> QED
  BY <1>1, DiscoveryInvariant, PTL

\* What carried the tag all along in a searched region is found.
THEOREM NothingIsMissed == DiscoverySpec => []NothingMissed
<1>1. DInv => NothingMissed
  <2> SUFFICES ASSUME DInv, pc \in {"deduplicate", "listed"},
                      NEW a \in steady, a.region \in Range(searchRegions)
               PROVE  a \in Range(discoveredResources)
    BY DEF NothingMissed
  <2>1. PICK i \in 1 .. Len(searchRegions) : a.region = searchRegions[i]
    BY RegionLists DEF DInv, Range
  <2>2. i \in 1 .. Len(found) /\ i \in 1 .. searches
    BY RegionLists DEF DInv, PlaceInv, ListInv
  <2> QED
    BY <2>1, <2>2 DEF DInv, SearchInv, DiscoveredInv
<1> QED
  BY <1>1, DiscoveryInvariant, PTL

\* No resource is in the list twice.
THEOREM TargetsAreDistinct == DiscoverySpec => []NoTargetTwice
<1>1. DInv => NoTargetTwice
  BY DEF DInv, DiscoveredInv, NoTargetTwice
<1> QED
  BY <1>1, DiscoveryInvariant, PTL

\* What is dropped are the members of a target, neither more nor less: a cluster is
\* never the member of another one, so the cluster of a member that is dropped stays.
THEOREM MembersGoAndNothingElse == DiscoverySpec => []JustMembersDropped
<1>1. DInv => JustMembersDropped
  <2> SUFFICES ASSUME DInv, pc = "listed" PROVE JustMembersDropped
    BY DEF JustMembersDropped
  <2>1. targets = Range(discoveredResources) \ Members
    BY DEF DInv, DedupInv
  <2>2. ASSUME NEW a \in Members PROVE \E c \in targets : IsClusterOf(c, a)
    <3>1. PICK c \in Range(discoveredResources) : IsClusterOf(c, a)
      BY DEF Members
    <3>2. c \notin Members
      BY <3>1 DEF Members, IsClusterOf
    <3> QED BY <2>1, <3>1, <3>2
  <2>3. ASSUME NEW a \in targets, NEW c \in targets PROVE ~ IsClusterOf(c, a)
    BY <2>1 DEF Members
  <2> QED BY <2>1, <2>2, <2>3 DEF JustMembersDropped
<1> QED
  BY <1>1, DiscoveryInvariant, PTL

-------------------------------------------------------------------------------
(* Discovery implements DiscoveryControl. *)

\* What DiscoveryControl sees.
hitsOf          == [i \in DOMAIN found |-> Range(found[i])]
outcomeOf       == IF pc \in {"listed", "failed"} THEN pc ELSE "searching"
mappedDiscovery == <<requested, enabled, steady, searchRegions, hitsOf, targets, outcomeOf>>

LEMMA SameOperators ==
    /\ \A f : Control!Range(f) = Range(f)
    /\ \A a, c : Control!IsMember(a, c) <=> IsClusterOf(c, a)
BY DEF Range, Control!Range, IsClusterOf, Control!IsMember

\* A recorded search has one place among the hits.
LEMMA HitFacts ==
    ASSUME DInv
    PROVE  /\ hitsOf \in Seq(SUBSET Arns)
           /\ Len(hitsOf) = Len(found)
           /\ \A i \in 1 .. Len(found) : hitsOf[i] = Range(found[i])
<1>1. found \in Seq(Seq(Arns)) /\ DOMAIN found = 1 .. Len(found) /\ Len(found) \in Nat
  BY RegionLists DEF DInv, ListInv
<1>2. \A i \in 1 .. Len(found) : Range(found[i]) \in SUBSET Arns
  BY <1>1, RangeOfSeq
<1>3. hitsOf \in [1 .. Len(found) -> SUBSET Arns]
  BY <1>1, <1>2 DEF hitsOf
<1> QED BY <1>1, <1>3 DEF hitsOf

\* When all searches are read, the list of the handler is all that was found.
LEMMA ListIsHits ==
    ASSUME DInv, pc = "deduplicate"
    PROVE  /\ Control!Hits = Range(discoveredResources)
           /\ Control!AllSearched
<1>1. searches = Len(found) /\ Len(found) = Len(searchRegions) /\ searchRegions # <<>>
  BY RegionLists DEF DInv, ListInv, PlaceInv
<1>2. Control!Range(hitsOf) = {Range(found[i]) : i \in 1 .. Len(found)}
  BY RegionLists DEF DInv, Control!Range, hitsOf
<1>3. UNION {Range(found[i]) : i \in 1 .. Len(found)} = Range(discoveredResources)
  BY <1>1 DEF DInv, DiscoveredInv
<1>4. Control!Hits = Range(discoveredResources)
  BY <1>2, <1>3 DEF Control!Hits, hitsOf
<1> QED BY <1>1, <1>4, HitFacts DEF Control!AllSearched, hitsOf

LEMMA DiscoveryInitMaps == DiscoveryInit => Control!ControlInit
BY EmptyFacts DEF DiscoveryInit, Control!ControlInit

\* What the actions leave alone is left alone in the abstract state.
LEMMA RecordFrame ==
    UNCHANGED <<requested, enabled, steady, searchRegions, found, targets, outcomeOf>>
      => UNCHANGED mappedDiscovery
BY DEF mappedDiscovery, hitsOf

LEMMA GetRegionsMaps == DInv /\ GetRegions => Control!ControlNext \/ UNCHANGED mappedDiscovery
<1> SUFFICES ASSUME DInv, GetRegions PROVE Control!ControlNext \/ UNCHANGED mappedDiscovery
  OBVIOUS
<1>1. UNCHANGED <<requested, enabled, steady, found, targets, hitsOf>> /\ pc = "regions"
  BY DEF GetRegions, world, hitsOf
<1>2. CASE searchRegions # <<>>
  BY <1>1, <1>2, RecordFrame DEF GetRegions, outcomeOf
<1>3. CASE searchRegions = <<>> /\ RegionsAccepted(requested, enabled)
  BY <1>1, <1>3, SameOperators
  DEF GetRegions, RegionsAccepted, selectTargetRegions, outcomeOf, hitsOf,
      Control!ControlNext, Control!Choose
<1>4. CASE searchRegions = <<>> /\ ~ RegionsAccepted(requested, enabled)
  BY <1>1, <1>4 DEF GetRegions, hitsOf, Control!ControlNext, Control!Fail
<1> QED BY <1>2, <1>3, <1>4

LEMMA ParseMaps == DInv /\ ParseRegions => Control!ControlNext \/ UNCHANGED mappedDiscovery
<1> SUFFICES ASSUME DInv, ParseRegions PROVE Control!ControlNext \/ UNCHANGED mappedDiscovery
  OBVIOUS
<1>1. UNCHANGED <<requested, enabled, steady, searchRegions, found, targets, hitsOf>>
      /\ pc = "validate"
  BY DEF ParseRegions, world, hitsOf
<1>2. CASE parseTargetRegions(requested)
  BY <1>1, <1>2, RecordFrame DEF ParseRegions, outcomeOf
<1>3. CASE ~ parseTargetRegions(requested)
  <2>1. searchRegions = <<>>
    BY <1>3 DEF DInv, PlaceInv
  <2> QED BY <1>1, <1>3, <2>1 DEF ParseRegions, hitsOf, Control!ControlNext, Control!Fail
<1> QED BY <1>2, <1>3

\* The last page makes a search of all the pages.
LEMMA LastPageMaps == DInv /\ ReadLastPage => Control!Search
<1> SUFFICES ASSUME DInv, ReadLastPage PROVE Control!Search
  OBVIOUS
<1> DEFINE result == collected \o SetToSeq(Remaining)
           S      == Range(result)
<1>1. /\ Searching /\ found' = Append(found, result)
      /\ UNCHANGED <<requested, enabled, steady, searchRegions, targets, pc>>
  BY DEF ReadLastPage, world
<1>2. /\ result \in Seq(Arns)
      /\ S = Range(collected) \cup Remaining
      /\ \A a \in S : a.region = NextRegion
  BY <1>1, RemainingFacts
<1>3. S \in SUBSET Arns
  BY <1>2, RangeOfSeq
<1> HIDE DEF result
<1>4. /\ found \in Seq(Seq(Arns)) /\ Len(found) \in Nat /\ DOMAIN found = 1 .. Len(found)
      /\ searches = Len(found) /\ Len(found) < Len(searchRegions) /\ pc = "search"
  BY <1>1, RegionLists DEF DInv, ListInv, Searching
<1>5. /\ hitsOf \in Seq(SUBSET Arns) /\ Len(hitsOf) = Len(found)
      /\ \A i \in 1 .. Len(found) : hitsOf[i] = Range(found[i])
  BY HitFacts
<1>6. /\ DOMAIN found' = 1 .. (Len(found) + 1)
      /\ \A i \in 1 .. Len(found) : found'[i] = found[i]
      /\ found'[Len(found) + 1] = result
  BY <1>1, <1>2, <1>4, AppendProperties
<1>7. hitsOf' = [i \in 1 .. (Len(found) + 1) |-> IF i <= Len(found) THEN hitsOf[i] ELSE S]
  BY <1>4, <1>5, <1>6 DEF hitsOf
<1>8. Append(hitsOf, S) = [i \in 1 .. (Len(found) + 1) |-> IF i <= Len(found) THEN hitsOf[i] ELSE S]
  BY <1>3, <1>5, AppendIs
<1>9. hitsOf' = Append(hitsOf, S)
  BY <1>7, <1>8
<1>10. \A a : Control!InNextRegion(a) <=> a.region = NextRegion
  BY <1>4, <1>5 DEF Control!InNextRegion, NextRegion, hitsOf
<1>11. \A a \in steady : a.region = NextRegion => a \in S
  BY <1>2 DEF Remaining, DInv, ListInv
<1>12. S \in SUBSET {a \in Arns : Control!InNextRegion(a)}
  BY <1>2, <1>3, <1>10
<1> HIDE DEF S
<1> QED BY <1>1, <1>4, <1>5, <1>9, <1>10, <1>11, <1>12 DEF Control!Search, hitsOf

\* Deduplication by the keys of the handler is that of all that was found.
LEMMA DeduplicateMaps == DInv /\ Deduplicate => Control!List
<1> SUFFICES ASSUME DInv, Deduplicate PROVE Control!List
  OBVIOUS
<1>1. /\ UNCHANGED <<requested, enabled, steady, searchRegions, found, discoveredResources>>
      /\ pc = "deduplicate" /\ pc' = "listed"
  BY DEF Deduplicate, world, listVars
<1>2. targets' = Range(discoveredResources) \ Members
  <2>1. DInv'
    BY DeduplicateInv
  <2>2. targets' = (Range(discoveredResources) \ Members)'
    BY <1>1, <2>1 DEF DInv, DedupInv
  <2> QED BY <1>1, <2>2 DEF Members, IsClusterOf
<1>3. Range(discoveredResources) \ Members =
        {a \in Control!Hits : \A c \in Control!Hits : ~ Control!IsMember(a, c)}
  BY <1>1, ListIsHits, SameOperators DEF Members
<1>4. UNCHANGED hitsOf
  BY <1>1 DEF hitsOf
<1> QED BY <1>1, <1>2, <1>3, <1>4, ListIsHits DEF Control!List, hitsOf

LEMMA MissingMaps == DInv /\ MemberMissing => Control!Fail
<1> SUFFICES ASSUME DInv, MemberMissing PROVE Control!Fail
  OBVIOUS
<1>1. /\ UNCHANGED <<requested, enabled, steady, searchRegions, found, targets, hitsOf>>
      /\ pc = "deduplicate" /\ pc' = "failed" /\ Describing /\ NextArn.type = "db"
  BY DEF MemberMissing, Describing, world, hitsOf
<1>2. NextArn \in Range(discoveredResources)
  <2>1. looked + 1 \in 1 .. Len(discoveredResources) /\ discoveredResources \in Seq(Arns)
    BY <1>1, RegionLists DEF Describing, DInv, ListInv
  <2> QED BY <2>1 DEF NextArn, Range
<1>3. \E c \in Range(discoveredResources) : c.type = "cluster"
  BY <1>1 DEF Describing, ClusterKeys, collectClusterKeysFromArns
<1> QED BY <1>1, <1>2, <1>3, ListIsHits DEF Control!Fail, hitsOf

LEMMA DiscoveryStepMaps ==
    DInv /\ [DiscoveryNext]_discoveryVars => Control!ControlNext \/ UNCHANGED mappedDiscovery
<1> SUFFICES ASSUME DInv, [DiscoveryNext]_discoveryVars
             PROVE  Control!ControlNext \/ UNCHANGED mappedDiscovery
  OBVIOUS
<1>1. CASE ParseRegions \/ GetRegions
  BY <1>1, ParseMaps, GetRegionsMaps
<1>2. CASE ReadLastPage \/ Deduplicate \/ MemberMissing
  BY <1>2, LastPageMaps, DeduplicateMaps, MissingMaps DEF Control!ControlNext
<1>3. CASE ReplaySearch \/ ReadPage \/ EndSearch \/ DescribeMember \/ Restart \/ Over
           \/ UNCHANGED discoveryVars
  BY <1>3, RecordFrame
  DEF ReplaySearch, ReadPage, EndSearch, DescribeMember, Describing, Searching, Restart, Over,
      discoveryVars, world, outcomeOf
<1>4. CASE WorldChanges
  BY <1>4 DEF WorldChanges, hitsOf, outcomeOf, Control!ControlNext, Control!AccountChanges
<1> QED BY <1>1, <1>2, <1>3, <1>4 DEF DiscoveryNext

\* For every account, paging, change and restart: discovery finds what one search of
\* each region finds, and leaves out of it just the members of its clusters.
THEOREM DiscoveryImplements == DiscoverySpec => DiscoveryIsControlled
<1>1. DInv /\ [DiscoveryNext]_discoveryVars => [Control!ControlNext]_(Control!controlVars)
  <2>1. UNCHANGED mappedDiscovery => UNCHANGED Control!controlVars
    BY DEF mappedDiscovery, hitsOf, outcomeOf, Control!controlVars
  <2> QED BY <2>1, DiscoveryStepMaps
<1> QED BY <1>1, DiscoveryInitMaps, DiscoveryInvariant, PTL
        DEF DiscoverySpec, DiscoveryIsControlled, Control!ControlSpec
===============================================================================
