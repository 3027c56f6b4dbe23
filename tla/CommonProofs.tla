----------------------------- MODULE CommonProofs -----------------------------
(***************************************************************************)
(* Proofs about PathValidator, ChunkId, Config and Lease, for paths of any *)
(* length and characters, digests of any length, any nodes, files and      *)
(* environments, and any clocks.                                           *)
(***************************************************************************)
EXTENDS PathValidator, ChunkId, Config, Lease, SequenceTheorems, FiniteSetTheorems, TLAPS

-----------------------------------------------------------------------------
(* PathValidator: the loop invariant is that the part of the path before   *)
(* the component looked at has none of the defects.                         *)

NoDouble(p, m) == \A k \in 2..m : p[k - 1] # Slash \/ p[k] # Slash
NoLong(p, m) ==
  \A j, k \in 2..m : k - j >= MaxComponent => \E n \in j..k : p[n] = Slash
NoParent(p, m) ==
  \A k \in 2..m - 2 : p[k - 1] # Slash \/ p[k] # Dot \/ p[k + 1] # Dot \/ p[k + 2] # Slash
NoBad(p, m) == \A k \in 2..m : p[k] = Slash \/ p[k] \in Allowed

Clean(p, m) == NoDouble(p, m) /\ NoLong(p, m) /\ NoParent(p, m) /\ NoBad(p, m)

\* Where the loop stands: start is just past a slash, and there is no other up
\* to end.
Standing ==
  /\ HeadVerdict(path) = "ok" /\ verdict = "ok"
  /\ start \in 1..Len(path) - 1 /\ end \in start..Len(path)
  /\ path[start] = Slash
  /\ \A k \in start + 1..end : path[k] # Slash
  /\ Clean(path, start)

\* What is shown so far.
Showing ==
  /\ ~DoubleSlash(shown)
  /\ verdict = "ok" => Len(shown) = i /\ \A k \in 1..i : shown[k] = path[k]

\* What is shown so far is what is kept of the path so far, and ends in a slash
\* when that does.
Collapsing ==
  /\ Len(shown) = Cardinality(Kept(path, i))
  /\ \A k \in Kept(path, i) : shown[Cardinality(Kept(path, k))] = path[k]
  /\ i > 0 => shown # <<>> /\ (shown[Len(shown)] = Slash <=> path[i] = Slash)

PathInv ==
  /\ at \in {"idle", "find", "judged", "done"}
  /\ path \in Seq(Char) /\ shown \in Seq(Char) /\ i \in 0..Len(path)
  /\ at = "idle" => i = 0 /\ shown = <<>>
  /\ at = "find" => Standing /\ i = 0 /\ shown = <<>>
  /\ at \in {"judged", "done"} => Showing
  /\ at = "done" => i = Len(path)
  /\ VerdictRight

\* A component that passes the checks, and the slash after it, extend the clean
\* part of the path.
LEMMA CleanExtends ==
  ASSUME NEW p \in Seq(Char), NEW s \in 1..Len(p) - 1, NEW e \in s + 1..Len(p) - 1,
         p[s] = Slash, p[e + 1] = Slash, Clean(p, s),
         \A k \in s + 1..e : p[k] # Slash /\ p[k] \in Allowed,
         e - s <= MaxComponent, ~(e - s = 2 /\ p[s + 1] = Dot /\ p[s + 2] = Dot)
  PROVE  Clean(p, e + 1)
  <1>0. Len(p) \in Nat /\ s \in Nat /\ e \in Nat /\ MaxComponent \in Nat /\ Slash # Dot
    BY PathConstants
  <1>1. NoDouble(p, e + 1)
    <2> SUFFICES ASSUME NEW k \in 2..e + 1 PROVE p[k - 1] # Slash \/ p[k] # Slash
      BY DEF NoDouble
    <2>1. CASE k <= s
      BY <1>0, <2>1, SMTT(30) DEF Clean, NoDouble
    <2>2. CASE k > s /\ k <= e
      BY <1>0, <2>2, SMTT(30)
    <2>3. CASE k = e + 1
      BY <1>0, <2>3, SMTT(30)
    <2> QED BY <1>0, <2>1, <2>2, <2>3
  <1>2. NoLong(p, e + 1)
    <2> SUFFICES ASSUME NEW j \in 2..e + 1, NEW k \in 2..e + 1, k - j >= MaxComponent
                 PROVE  \E n \in j..k : p[n] = Slash
      BY ZenonT(30) DEF NoLong
    <2>1. CASE k <= s
      <3>1. j \in 2..s /\ k \in 2..s
        BY <1>0, <2>1
      <3> QED BY <3>1, Zenon DEF Clean, NoLong
    <2>2. CASE j <= s /\ s < k
      BY <1>0, <2>2, SMTT(30)
    <2>3. CASE s < j /\ k = e + 1
      BY <1>0, <2>3, SMTT(30)
    <2>4. CASE s < j /\ k <= e
      BY <1>0, <2>4, SMTT(30)
    <2> QED BY <1>0, <2>1, <2>2, <2>3, <2>4
  <1>3. NoParent(p, e + 1)
    <2> SUFFICES ASSUME NEW k \in 2..(e + 1) - 2
                 PROVE  p[k - 1] # Slash \/ p[k] # Dot \/ p[k + 1] # Dot \/ p[k + 2] # Slash
      BY Zenon DEF NoParent
    <2> SUFFICES ASSUME p[k - 1] = Slash, p[k] = Dot, p[k + 1] = Dot, p[k + 2] = Slash
                 PROVE  FALSE
      BY Zenon
    <2>1. CASE k + 2 <= s
      BY <1>0, <2>1, SMTT(30) DEF Clean, NoParent
    <2>2. CASE k = s + 1
      BY <1>0, <2>2, SMTT(30)
    <2>3. CASE k + 2 > s /\ k # s + 1
      BY <1>0, <2>3, SMTT(30)
    <2> QED BY <1>0, <2>1, <2>2, <2>3
  <1>4. NoBad(p, e + 1)
    BY <1>0, SMTT(30) DEF Clean, NoBad
  <1> QED BY <1>1, <1>2, <1>3, <1>4 DEF Clean

\* A path that is clean up to a slash at its end has no defect of components.
LEMMA CleanToSlash ==
  ASSUME NEW p \in Seq(Char), Len(p) > 0, p[Len(p)] = Slash, Clean(p, Len(p))
  PROVE  ~DoubleSlash(p) /\ ~LongComponent(p) /\ ~ParentComponent(p) /\ ~BadCharacter(p)
  <1>0. Len(p) \in Nat /\ Slash # Dot /\ MaxComponent \in Nat
    BY PathConstants
  <1>1. ~DoubleSlash(p) /\ ~BadCharacter(p)
    BY DEF Clean, NoDouble, NoBad, DoubleSlash, BadCharacter
  <1>2. ~LongComponent(p)
    BY <1>0, SMTT(30) DEF Clean, NoLong, LongComponent
  <1>3. ~ParentComponent(p)
    <2> SUFFICES ASSUME NEW k \in 2..Len(p) - 1,
                        p[k - 1] = Slash, p[k] = Dot, p[k + 1] = Dot,
                        k + 1 = Len(p) \/ p[k + 2] = Slash
                 PROVE  FALSE
      BY DEF ParentComponent
    <2>1. k + 1 # Len(p)
      BY <1>0
    <2>2. k \in 2..Len(p) - 2
      BY <1>0, <2>1
    <2> QED BY <2>1, <2>2 DEF Clean, NoParent
  <1> QED BY <1>1, <1>2, <1>3

\* A last component that passes the checks leaves the whole path without them.
LEMMA CleanToEnd ==
  ASSUME NEW p \in Seq(Char), NEW s \in 1..Len(p) - 1,
         p[s] = Slash, Clean(p, s),
         \A k \in s + 1..Len(p) : p[k] # Slash /\ p[k] \in Allowed,
         Len(p) - s <= MaxComponent, ~(Len(p) - s = 2 /\ p[s + 1] = Dot /\ p[s + 2] = Dot)
  PROVE  ~DoubleSlash(p) /\ ~LongComponent(p) /\ ~ParentComponent(p) /\ ~BadCharacter(p)
  <1>0. Len(p) \in Nat /\ s \in Nat /\ MaxComponent \in Nat /\ Slash # Dot
    BY PathConstants
  <1>1. ~DoubleSlash(p)
    BY <1>0, SMTT(30) DEF Clean, NoDouble, DoubleSlash
  <1>2. ~BadCharacter(p)
    BY <1>0, SMTT(30) DEF Clean, NoBad, BadCharacter
  <1>3. ~LongComponent(p)
    <2> SUFFICES ASSUME NEW j \in 2..Len(p), NEW k \in 2..Len(p), k - j >= MaxComponent
                 PROVE  \E n \in j..k : p[n] = Slash
      BY SMTT(30) DEF LongComponent
    <2>1. CASE k <= s
      <3>1. j \in 2..s /\ k \in 2..s
        BY <1>0, <2>1
      <3> QED BY <3>1, Zenon DEF Clean, NoLong
    <2>2. CASE j <= s /\ s < k
      BY <1>0, <2>2, SMTT(30)
    <2>3. CASE s < j
      BY <1>0, <2>3, SMTT(30)
    <2> QED BY <1>0, <2>1, <2>2, <2>3
  <1>4. ~ParentComponent(p)
    <2> SUFFICES ASSUME NEW k \in 2..Len(p) - 1,
                        p[k - 1] = Slash, p[k] = Dot, p[k + 1] = Dot,
                        k + 1 = Len(p) \/ p[k + 2] = Slash
                 PROVE  FALSE
      BY DEF ParentComponent
    <2>1. CASE k + 2 <= s
      BY <1>0, <2>1, SMTT(30) DEF Clean, NoParent
    <2>2. CASE k = s + 1
      BY <1>0, <2>2, SMTT(30)
    <2>3. CASE k + 2 > s /\ k # s + 1
      BY <1>0, <2>3, SMTT(30)
    <2> QED BY <1>0, <2>1, <2>2, <2>3
  <1> QED BY <1>1, <1>2, <1>3, <1>4

\* Validate enters its loop standing at the first component, or is done.
LEMMA CallStep ==
  ASSUME NEW p \in Seq(Char), Call(p)
  PROVE  PathInv'
  <1>1. /\ path' = p /\ verdict' = HeadVerdict(p) /\ start' = 1 /\ end' = 1 /\ i' = 0 /\ shown' = <<>>
        /\ at' = IF HeadVerdict(p) = "ok" /\ Len(p) > 1 THEN "find" ELSE "judged"
    BY DEF Call
  <1>2. /\ at' \in {"find", "judged"} /\ path' \in Seq(Char) /\ shown' \in Seq(Char)
        /\ i' \in 0..Len(path') /\ Len(p) \in Nat
    BY <1>1
  <1>3. Showing'
    BY <1>1 DEF Showing, DoubleSlash
  <1>4. ASSUME at' = "find" PROVE Standing'
    <2>1. HeadVerdict(p) = "ok" /\ Len(p) > 1
      BY <1>1, <1>4
    <2>2. p[1] = Slash
      BY <2>1 DEF HeadVerdict
    <2>3. Clean(p, 1)
      BY DEF Clean, NoDouble, NoLong, NoParent, NoBad
    <2> QED BY <1>1, <1>2, <2>1, <2>2, <2>3 DEF Standing
  <1>5. ASSUME at' = "judged" PROVE VerdictRight'
    <2>1. HeadVerdict(p) # "ok" \/ Len(p) <= 1
      BY <1>1, <1>2, <1>5
    <2>2. CASE HeadVerdict(p) # "ok"
      BY <1>1, <2>2 DEF HeadVerdict, VerdictRight, Relative, Overlong, HasNul
    <2>3. CASE HeadVerdict(p) = "ok" /\ Len(p) <= 1
      <3>1. p # <<>> /\ p[1] = Slash /\ ~(Len(p) > MaxPath) /\ ~(\E k \in 1..Len(p) : p[k] = Nul)
        BY <2>3 DEF HeadVerdict
      <3>2. ~Relative(p) /\ ~Overlong(p) /\ ~HasNul(p)
        BY <3>1, Zenon DEF Relative, Overlong, HasNul
      <3>3. ~DoubleSlash(p) /\ ~LongComponent(p) /\ ~ParentComponent(p) /\ ~BadCharacter(p)
        BY <1>2, <2>3 DEF DoubleSlash, LongComponent, ParentComponent, BadCharacter
      <3> QED BY <1>1, <2>3, <3>2, <3>3, Zenon DEF VerdictRight
    <2> QED BY <2>1, <2>2, <2>3
  <1>6. at' # "judged" => VerdictRight'
    BY <1>2 DEF VerdictRight
  <1> QED BY <1>1, <1>2, <1>3, <1>4, <1>5, <1>6 DEF PathInv

\* find stops no later than at the next slash.
LEMMA FindStep ==
  ASSUME PathInv, Find
  PROVE  PathInv'
  <1>1. /\ at = "find" /\ end < Len(path) /\ path[end + 1] # Slash /\ end' = end + 1
        /\ UNCHANGED <<path, at, start, verdict, i, shown>> /\ Standing /\ Len(path) \in Nat
    BY DEF PathInv, Find, AtSlash
  <1>2. Standing'
    BY <1>1, SMTT(30) DEF Standing
  <1> QED BY <1>1, <1>2 DEF PathInv, VerdictRight

\* A round of the loop refuses the path for a defect it has, or goes on, or
\* accepts a path that has none.
LEMMA ComponentStep ==
  ASSUME PathInv, Component
  PROVE  PathInv'
  <1> DEFINE v == ComponentVerdict(start, end)
  <1>1. /\ at = "find" /\ (end = Len(path) \/ AtSlash) /\ verdict' = v
        /\ at' = IF v = "ok" /\ end + 1 < Len(path) THEN "find" ELSE "judged"
        /\ start' = end + 1 /\ end' = end + 1 /\ UNCHANGED <<path, i, shown>>
        /\ i = 0 /\ shown = <<>> /\ path \in Seq(Char)
    BY DEF PathInv, Component
  <1>2. /\ HeadVerdict(path) = "ok" /\ path[start] = Slash /\ Clean(path, start)
        /\ start \in 1..Len(path) - 1 /\ end \in start..Len(path)
        /\ \A k \in start + 1..end : path[k] # Slash
        /\ Len(path) \in Nat /\ start \in Nat /\ end \in Nat /\ MaxComponent \in Nat
    BY <1>1, PathConstants DEF PathInv, Standing
  <1>3. Showing'
    BY <1>1 DEF Showing, DoubleSlash
  <1>4. ~Relative(path) /\ ~Overlong(path) /\ ~HasNul(path)
    <2>1. path # <<>> /\ path[1] = Slash /\ ~(Len(path) > MaxPath)
          /\ ~(\E k \in 1..Len(path) : path[k] = Nul)
      BY <1>2 DEF HeadVerdict
    <2> QED BY <2>1, Zenon DEF Relative, Overlong, HasNul
  <1>5. v = "ok" => /\ end # start /\ end - start <= MaxComponent
                    /\ ~(end - start = 2 /\ path[start + 1] = Dot /\ path[start + 2] = Dot)
                    /\ \A k \in start + 1..end : path[k] \in Allowed
    BY <1>2 DEF ComponentVerdict
  <1>6. CASE v = "ok" /\ end + 1 < Len(path)
    <2>1. path[end + 1] = Slash
      BY <1>1, <1>2, <1>6 DEF AtSlash
    <2>2. end \in start + 1..Len(path) - 1
      BY <1>2, <1>5, <1>6
    <2>3. Clean(path, end + 1)
      BY <1>1, <1>2, <1>5, <1>6, <2>1, <2>2, CleanExtends
    <2>4. Standing'
      BY <1>1, <1>2, <1>6, <2>1, <2>3 DEF Standing
    <2> QED BY <1>1, <1>6, <2>4 DEF PathInv, VerdictRight
  <1>7. CASE v = "ok" /\ ~(end + 1 < Len(path))
    <2>1. ~DoubleSlash(path) /\ ~LongComponent(path) /\ ~ParentComponent(path) /\ ~BadCharacter(path)
      <3>1. CASE end = Len(path)
        <4>1. \A k \in start + 1..Len(path) : path[k] # Slash /\ path[k] \in Allowed
          BY <1>2, <1>5, <1>7, <3>1
        <4> QED BY <1>1, <1>2, <1>5, <1>7, <3>1, <4>1, CleanToEnd, SMTT(30)
      <3>2. CASE end # Len(path)
        <4>1. end + 1 = Len(path) /\ path[end + 1] = Slash /\ end \in start + 1..Len(path) - 1
          BY <1>1, <1>2, <1>5, <1>7, <3>2 DEF AtSlash
        <4>2. Clean(path, end + 1)
          BY <1>1, <1>2, <1>5, <1>7, <4>1, CleanExtends
        <4> QED BY <1>1, <1>2, <4>1, <4>2, CleanToSlash
      <3> QED BY <3>1, <3>2
    <2>2. VerdictRight'
      BY <1>1, <1>4, <1>7, <2>1, Zenon DEF VerdictRight
    <2> QED BY <1>1, <1>3, <1>7, <2>2 DEF PathInv
  <1>8. CASE v # "ok"
    <2>1. CASE end = start
      <3>1. v = "EmptyComponent"
        BY <2>1 DEF ComponentVerdict
      <3>2. path[start + 1] = Slash
        BY <1>1, <1>2, <2>1 DEF AtSlash
      <3>3. DoubleSlash(path)
        BY <1>2, <3>2, SMTT(30) DEF DoubleSlash
      <3>4. VerdictRight'
        BY <1>1, <3>1, <3>3, Zenon DEF VerdictRight
      <3> QED BY <1>1, <1>3, <1>8, <3>4 DEF PathInv
    <2>2. CASE end # start /\ end - start > MaxComponent
      <3>1. v = "ComponentTooLong"
        BY <2>2 DEF ComponentVerdict
      <3>2. LongComponent(path)
        <4>1. start + 1 \in 2..Len(path) /\ end \in 2..Len(path) /\ end - (start + 1) >= MaxComponent
          BY <1>2, <2>2
        <4> QED BY <1>2, <4>1, Zenon DEF LongComponent
      <3>3. VerdictRight'
        BY <1>1, <3>1, <3>2, Zenon DEF VerdictRight
      <3> QED BY <1>1, <1>3, <1>8, <3>3 DEF PathInv
    <2>3. CASE /\ end # start /\ ~(end - start > MaxComponent)
               /\ end - start = 2 /\ path[start + 1] = Dot /\ path[start + 2] = Dot
      <3>1. v = "ContainsParentTraversal"
        BY <2>3 DEF ComponentVerdict
      <3>2. end = start + 2 /\ start + 1 \in 2..Len(path) - 1
        BY <1>2, <2>3
      <3>3. start + 2 = Len(path) \/ path[start + 3] = Slash
        BY <1>1, <1>2, <3>2 DEF AtSlash
      <3>4. ParentComponent(path)
        <4>1. /\ (start + 1) - 1 = start /\ (start + 1) + 1 = start + 2 /\ (start + 1) + 2 = start + 3
          BY <1>2
        <4> QED BY <1>2, <2>3, <3>2, <3>3, <4>1, Zenon DEF ParentComponent
      <3>5. VerdictRight'
        BY <1>1, <3>1, <3>4, Zenon DEF VerdictRight
      <3> QED BY <1>1, <1>3, <1>8, <3>5 DEF PathInv
    <2>4. CASE /\ end # start /\ ~(end - start > MaxComponent)
               /\ ~(end - start = 2 /\ path[start + 1] = Dot /\ path[start + 2] = Dot)
      <3>1. v = "InvalidCharacter" /\ \E k \in start + 1..end : path[k] \notin Allowed
        BY <1>8, <2>4 DEF ComponentVerdict
      <3>2. BadCharacter(path)
        BY <1>2, <3>1 DEF BadCharacter
      <3>3. VerdictRight'
        BY <1>1, <3>1, <3>2, Zenon DEF VerdictRight
      <3> QED BY <1>1, <1>3, <1>8, <3>3 DEF PathInv
    <2> QED BY <2>1, <2>2, <2>3, <2>4, Zenon
  <1> QED BY <1>6, <1>7, <1>8, Zenon

\* A character shown never repeats a slash, and none of an accepted path is
\* dropped, for what is shown so far is the path so far.
LEMMA ShowStep ==
  ASSUME PathInv, Show
  PROVE  PathInv'
  <1> DEFINE c == path[i + 1]
  <1>1. /\ at = "judged" /\ i < Len(path) /\ i' = i + 1
        /\ shown' = IF Repeats(c) THEN shown ELSE Append(shown, c)
        /\ UNCHANGED <<path, at, start, end, verdict>>
        /\ Showing /\ VerdictRight /\ path \in Seq(Char) /\ shown \in Seq(Char)
        /\ i \in 0..Len(path) /\ Len(path) \in Nat /\ i \in Nat
    BY DEF PathInv, Show
  <1>2. c \in Char /\ i' \in 0..Len(path')
    BY <1>1
  <1>3. verdict = "ok" => ~Repeats(c)
    <2> SUFFICES ASSUME verdict = "ok", Repeats(c) PROVE FALSE
      OBVIOUS
    <2>1. c = Slash /\ shown # <<>> /\ shown[Len(shown)] = Slash /\ Len(shown) = i
          /\ \A k \in 1..i : shown[k] = path[k]
      BY <1>1 DEF Repeats, Showing
    <2>2. i >= 1
      BY <1>1, <2>1
    <2>3. path[i] = Slash /\ i + 1 \in 2..Len(path) /\ (i + 1) - 1 = i
      BY <1>1, <2>1, <2>2
    <2>4. DoubleSlash(path)
      BY <2>1, <2>3, Zenon DEF DoubleSlash
    <2> QED BY <1>1, <2>4 DEF VerdictRight
  <1>4. CASE Repeats(c)
    <2>1. shown' = shown /\ verdict # "ok"
      BY <1>1, <1>3, <1>4
    <2>2. Showing'
      BY <1>1, <2>1, SMTT(30) DEF Showing
    <2> QED BY <1>1, <1>2, <2>1, <2>2 DEF PathInv, VerdictRight
  <1>5. CASE ~Repeats(c)
    <2>1. shown' = Append(shown, c)
      BY <1>1, <1>5
    <2>2. /\ shown' \in Seq(Char) /\ Len(shown') = Len(shown) + 1 /\ Len(shown) \in Nat
          /\ shown'[Len(shown) + 1] = c /\ \A k \in 1..Len(shown) : shown'[k] = shown[k]
      BY <1>1, <1>2, <2>1
    <2>3. ~DoubleSlash(shown')
      <3> SUFFICES ASSUME NEW k \in 2..Len(shown) + 1, shown'[k - 1] = Slash, shown'[k] = Slash
                   PROVE  FALSE
        BY <2>2 DEF DoubleSlash
      <3>1. CASE k <= Len(shown)
        <4>1. k \in 2..Len(shown) /\ shown[k - 1] = Slash /\ shown[k] = Slash
          BY <2>2, <3>1
        <4> QED BY <1>1, <4>1, Zenon DEF Showing, DoubleSlash
      <3>2. CASE k = Len(shown) + 1
        <4>1. shown[Len(shown)] = Slash /\ c = Slash /\ shown # <<>>
          BY <1>1, <2>2, <3>2
        <4> QED BY <1>5, <4>1, Zenon DEF Repeats
      <3> QED BY <2>2, <3>1, <3>2
    <2>4. Showing'
      BY <1>1, <2>2, <2>3 DEF Showing
    <2> QED BY <1>1, <1>2, <2>2, <2>4 DEF PathInv, VerdictRight
  <1> QED BY <1>4, <1>5

\* What is kept of the first m characters is finite, and its count grows by one
\* with a character that is kept.
LEMMA KeptCount ==
  ASSUME NEW p, NEW m \in Nat
  PROVE  /\ IsFiniteSet(Kept(p, m)) /\ Cardinality(Kept(p, m)) \in Nat
         /\ m + 1 \notin Kept(p, m + 1) => Kept(p, m + 1) = Kept(p, m)
         /\ m + 1 \in Kept(p, m + 1) =>
              /\ Kept(p, m + 1) = Kept(p, m) \cup {m + 1}
              /\ Cardinality(Kept(p, m + 1)) = Cardinality(Kept(p, m)) + 1
         /\ \A k \in Kept(p, m) : Cardinality(Kept(p, k)) \in 1..Cardinality(Kept(p, m))
  <1>1. ASSUME NEW n \in Nat PROVE IsFiniteSet(Kept(p, n)) /\ Cardinality(Kept(p, n)) \in Nat
    <2>1. IsFiniteSet(1..n)
      BY FS_Interval
    <2>2. Kept(p, n) \subseteq 1..n
      BY Zenon DEF Kept
    <2> QED BY <2>1, <2>2, FS_Subset, FS_CardinalityType, Zenon
  <1>2. m + 1 \notin Kept(p, m + 1) => Kept(p, m + 1) = Kept(p, m)
    BY DEF Kept
  <1>3. ASSUME m + 1 \in Kept(p, m + 1)
        PROVE  /\ Kept(p, m + 1) = Kept(p, m) \cup {m + 1}
               /\ Cardinality(Kept(p, m + 1)) = Cardinality(Kept(p, m)) + 1
    <2>1. Kept(p, m + 1) = Kept(p, m) \cup {m + 1} /\ m + 1 \notin Kept(p, m)
      BY <1>3 DEF Kept
    <2>2. Cardinality(Kept(p, m) \cup {m + 1}) = Cardinality(Kept(p, m)) + 1
      BY <1>1, <2>1, FS_AddElement
    <2> QED BY <2>1, <2>2, Zenon
  <1>4. ASSUME NEW k \in Kept(p, m) PROVE Cardinality(Kept(p, k)) \in 1..Cardinality(Kept(p, m))
    <2>1. k \in Nat /\ k \in Kept(p, k) /\ Kept(p, k) \subseteq Kept(p, m)
      BY DEF Kept
    <2>2. Cardinality(Kept(p, k)) <= Cardinality(Kept(p, m))
      BY <1>1, <2>1, FS_Subset, Zenon
    <2>3. Cardinality(Kept(p, k)) # 0
      BY <1>1, <2>1, FS_EmptySet, Zenon
    <2> QED BY <1>1, <2>1, <2>2, <2>3
  <1> QED BY <1>1, <1>2, <1>3, <1>4, Zenon

\* A round of the loop shows a character exactly when it is to be kept: the last
\* one shown is a slash when the one before in the path is.
LEMMA CollapsingStep ==
  ASSUME path \in Seq(Char), shown \in Seq(Char), i \in 0..Len(path), Collapsing, Show
  PROVE  Collapsing'
  <1> DEFINE c == path[i + 1]
             n == Cardinality(Kept(path, i))
  <1>1. /\ path' = path /\ i' = i + 1 /\ i < Len(path) /\ i \in Nat /\ Len(path) \in Nat /\ c \in Char
        /\ shown' = IF Repeats(c) THEN shown ELSE Append(shown, c)
    BY DEF Show
  <1>2. /\ Len(shown) = n /\ n \in Nat
        /\ \A k \in Kept(path, i) : Cardinality(Kept(path, k)) \in 1..n
        /\ \A k \in Kept(path, i) : shown[Cardinality(Kept(path, k))] = path[k]
    BY <1>1, KeptCount, Zenon DEF Collapsing
  <1>3. i = 0 => shown = <<>>
    <2>1. i = 0 => Kept(path, i) = {}
      BY DEF Kept
    <2>2. i = 0 => Len(shown) = 0
      BY <1>2, <2>1, FS_EmptySet, Zenon
    <2> QED BY <2>2
  <1>4. Repeats(c) <=> i > 0 /\ path[i] = Slash /\ c = Slash
    BY <1>1, <1>3 DEF Repeats, Collapsing
  <1>5. i + 1 \in Kept(path, i + 1) <=> ~Repeats(c)
    <2>1. i + 1 \in 1..i + 1 /\ (i + 1 = 1 <=> ~(i > 0)) /\ (i + 1) - 1 = i
      BY <1>1
    <2>2. i + 1 \in Kept(path, i + 1) <=> i + 1 = 1 \/ c # Slash \/ path[(i + 1) - 1] # Slash
      BY <2>1, Zenon DEF Kept
    <2> QED BY <1>4, <2>1, <2>2
  <1>6. CASE Repeats(c)
    <2>1. shown' = shown /\ Kept(path, i + 1) = Kept(path, i)
      BY <1>1, <1>5, <1>6, KeptCount, Zenon
    <2>2. shown' # <<>> /\ shown'[Len(shown')] = Slash /\ path[i + 1] = Slash
      BY <1>6, <2>1, Zenon DEF Repeats
    <2> QED BY <1>1, <1>2, <2>1, <2>2, Zenon DEF Collapsing
  <1>7. CASE ~Repeats(c)
    <2>1. /\ shown' = Append(shown, c) /\ Kept(path, i + 1) = Kept(path, i) \cup {i + 1}
          /\ Cardinality(Kept(path, i + 1)) = n + 1
      BY <1>1, <1>5, <1>7, KeptCount, Zenon
    <2>2. /\ Len(shown') = n + 1 /\ shown'[n + 1] = c /\ shown' # <<>>
          /\ \A k \in 1..n : shown'[k] = shown[k]
      BY <1>1, <1>2, <2>1
    <2>3. ASSUME NEW k \in Kept(path, i + 1) PROVE shown'[Cardinality(Kept(path, k))] = path[k]
      <3>1. CASE k \in Kept(path, i)
        BY <1>2, <2>2, <3>1, Zenon
      <3>2. CASE k = i + 1
        BY <2>1, <2>2, <3>2, Zenon
      <3> QED BY <2>1, <2>3, <3>1, <3>2, Zenon
    <2>4. shown'[Len(shown')] = path[i + 1]
      BY <2>2, Zenon
    <2> QED BY <1>1, <2>1, <2>2, <2>3, <2>4, Zenon DEF Collapsing
  <1> QED BY <1>6, <1>7, Zenon

\* The scan of a path never loses its place.
LEMMA PathInvariant == PathSpec => []PathInv
  <1>1. PathInit => PathInv
    BY DEF PathInit, PathInv, VerdictRight
  <1>2. PathInv /\ [PathNext]_pathVars => PathInv'
    <2> SUFFICES ASSUME PathInv, [PathNext]_pathVars PROVE PathInv'
      OBVIOUS
    <2>1. ASSUME NEW p \in Paths, Call(p) PROVE PathInv'
      BY <2>1, CallStep, PathConstants
    <2>2. CASE Find
      BY <2>2, FindStep
    <2>3. CASE Component
      BY <2>3, ComponentStep
    <2>4. CASE Show
      BY <2>4, ShowStep
    <2>5. CASE Shown
      BY <2>5, SMTT(30) DEF Shown, PathInv, VerdictRight, Showing
    <2>6. CASE UNCHANGED pathVars
      BY <2>6 DEF pathVars, PathInv, VerdictRight, Showing, Standing
    <2> QED BY <2>1, <2>2, <2>3, <2>4, <2>5, <2>6, Zenon DEF PathNext
  <1> QED BY <1>1, <1>2, PTL DEF PathSpec

\* Validate accepts exactly the paths without a defect, and names one the path
\* has, for paths of any length over any characters and any limits.
THEOREM PathsJudged == PathSpec => []VerdictRight
  <1>1. PathInv => VerdictRight
    BY DEF PathInv
  <1> QED BY <1>1, PathInvariant, PTL

\* NormalizeForDisplay leaves a valid path alone and shows no two slashes in a
\* row, for paths of any length.
THEOREM PathsShown == PathSpec => []ValidShownAsIs
  <1>1. PathInv => ValidShownAsIs
    <2> SUFFICES ASSUME PathInv, at = "done" PROVE (verdict = "ok" => shown = path) /\ ~DoubleSlash(shown)
      BY DEF ValidShownAsIs
    <2>1. Showing /\ i = Len(path) /\ path \in Seq(Char) /\ shown \in Seq(Char)
      BY DEF PathInv
    <2>2. ASSUME verdict = "ok" PROVE shown = path
      <3>1. Len(shown) = Len(path) /\ \A k \in 1..Len(path) : shown[k] = path[k]
        BY <2>1, <2>2 DEF Showing
      <3> QED BY <2>1, <3>1, SeqEqual
    <2> QED BY <2>1, <2>2 DEF Showing
  <1> QED BY <1>1, PathInvariant, PTL

\* NormalizeForDisplay shows each character of the path that is not a slash after
\* a slash, in order, and nothing else, for paths of any length.
THEOREM PathsCollapsed == PathSpec => []DisplayCollapses
  <1>1. ASSUME i = 0, shown = <<>> PROVE Collapsing
    <2>1. Kept(path, 0) = {}
      BY DEF Kept
    <2>2. Cardinality(Kept(path, 0)) = 0 /\ ~(0 > 0)
      BY <2>1, FS_EmptySet
    <2> QED BY <1>1, <2>1, <2>2 DEF Collapsing
  <1>2. ASSUME i' = 0, shown' = <<>> PROVE Collapsing'
    <2>1. Kept(path', 0) = {}
      BY DEF Kept
    <2>2. Cardinality(Kept(path', 0)) = 0 /\ ~(0 > 0)
      BY <2>1, FS_EmptySet
    <2> QED BY <1>2, <2>1, <2>2 DEF Collapsing
  <1>3. PathInit => Collapsing
    BY <1>1, Zenon DEF PathInit
  <1>4. PathInv /\ Collapsing /\ [PathNext]_pathVars => Collapsing'
    <2> SUFFICES ASSUME PathInv, Collapsing, [PathNext]_pathVars PROVE Collapsing'
      OBVIOUS
    <2>1. ASSUME NEW p \in Paths, Call(p) PROVE Collapsing'
      BY <1>2, <2>1, Zenon DEF Call
    <2>2. CASE Show
      BY <2>2, CollapsingStep, Zenon DEF PathInv
    <2>3. ASSUME UNCHANGED <<path, i, shown>> PROVE Collapsing'
      BY <2>3, Zenon DEF Collapsing
    <2>4. CASE Find \/ Component \/ Shown \/ UNCHANGED pathVars
      BY <2>3, <2>4, Zenon DEF Find, Component, Shown, pathVars
    <2> QED BY <2>1, <2>2, <2>4, Zenon DEF PathNext
  <1>5. PathInv /\ Collapsing => DisplayCollapses
    BY Zenon DEF PathInv, Collapsing, DisplayCollapses
  <1> QED BY <1>3, <1>4, <1>5, PathInvariant, PTL DEF PathSpec

-----------------------------------------------------------------------------
(* ChunkId                                                                  *)

\* The two digits of a byte give the byte back.
LEMMA ByteOfDigits ==
  ASSUME NEW a \in 0..15, NEW b \in 0..15
  PROVE  16 * a + b \in Byte /\ (16 * a + b) \div 16 = a /\ (16 * a + b) % 16 = b
  BY SMTT(30) DEF Byte

\* A byte and its two hexadecimal digits.
LEMMA DigitsOfByte ==
  ASSUME NEW b \in Byte
  PROVE  b \div 16 \in 0..15 /\ b % 16 \in 0..15 /\ 16 * (b \div 16) + (b % 16) = b
  BY SMTT(30) DEF Byte

\* The places of a pair of digits in the text.
LEMMA Places ==
  ASSUME NEW k \in 1..N
  PROVE  /\ 2 * k - 1 \in 1..2 * N /\ 2 * k \in 1..2 * N
         /\ (2 * k - 1 + 1) \div 2 = k /\ (2 * k + 1) \div 2 = k
         /\ (2 * k - 1) % 2 = 1 /\ (2 * k) % 2 = 0
  BY IdConstants, SMTT(30)

\* The digit at a place of the text belongs to the byte at half that place.
LEMMA PlaceOf ==
  ASSUME NEW k \in 1..2 * N
  PROVE  /\ (k + 1) \div 2 \in 1..N
         /\ IF k % 2 = 1 THEN k = 2 * ((k + 1) \div 2) - 1 ELSE k = 2 * ((k + 1) \div 2)
  BY IdConstants, SMTT(30)

\* Lower-case digits pass the checks and are read exactly.
LEMMA LowerParsed ==
  ASSUME NEW t \in Text, Len(t) = 2 * N, \A k \in 1..Len(t) : t[k] \in Lower
  PROVE  /\ Parse(t) = Ok([k \in 1..N |-> 16 * t[2 * k - 1].v + t[2 * k].v])
         /\ t = ToHexString(Parse(t).digest)
  <1> DEFINE d == [k \in 1..N |-> 16 * t[2 * k - 1].v + t[2 * k].v]
  <1>0. N \in Nat /\ N > 0
    BY IdConstants
  <1>1. \A k \in 1..2 * N : t[k].kind = "lower" /\ t[k].v \in 0..15 /\ t[k] = LowerDigit(t[k].v)
    BY DEF Lower, LowerDigit
  <1>2. ~ \E k \in 1..Len(t) : Offends(t[k])
    BY <1>1, SMTT(30) DEF Offends, IsXDigit
  <1>3. ASSUME NEW k \in 1..N
        PROVE  /\ PairRead(t[2 * k - 1], t[2 * k])
               /\ PairValue(t[2 * k - 1], t[2 * k]) = 16 * t[2 * k - 1].v + t[2 * k].v
    BY <1>1, Places DEF PairRead, PairValue, IsXDigit
  <1>4. [k \in 1..N |-> PairValue(t[2 * k - 1], t[2 * k])] = d
    BY <1>3, SMTT(30)
  <1>5. FromHexString(t) = Ok(d)
    BY <1>3, <1>4, ZenonT(30) DEF FromHexString
  <1>6. Parse(t) = Ok(d)
    BY <1>2, <1>5, Zenon DEF Parse
  <1>7. ASSUME NEW k \in 1..2 * N
        PROVE  t[k] = ToHexString(d)[k]
    <2> DEFINE j == (k + 1) \div 2
    <2>1. j \in 1..N
      BY PlaceOf
    <2>2. d[j] = 16 * t[2 * j - 1].v + t[2 * j].v
      BY <2>1
    <2>3. 2 * j - 1 \in 1..2 * N /\ 2 * j \in 1..2 * N
      BY <2>1, Places
    <2>4. t[2 * j - 1].v \in 0..15 /\ t[2 * j].v \in 0..15
      BY <1>1, <2>3
    <2>5. d[j] \div 16 = t[2 * j - 1].v /\ d[j] % 16 = t[2 * j].v
      <3>1. PICK a \in 0..15, b \in 0..15 : a = t[2 * j - 1].v /\ b = t[2 * j].v
        BY <2>4, ZenonT(30)
      <3>2. d[j] = 16 * a + b
        BY <2>2, <3>1
      <3>3. (16 * a + b) \div 16 = a /\ (16 * a + b) % 16 = b
        BY ByteOfDigits, ZenonT(30)
      <3> HIDE DEF j, d
      <3> QED BY <3>1, <3>2, <3>3, Zenon
    <2>6. ToHexString(d)[k] = LowerDigit(IF k % 2 = 1 THEN d[j] \div 16 ELSE d[j] % 16)
      BY DEF ToHexString
    <2>7. IF k % 2 = 1 THEN k = 2 * j - 1 ELSE k = 2 * j
      BY PlaceOf
    <2> HIDE DEF j, d
    <2>8. CASE k % 2 = 1
      BY <1>1, <2>5, <2>6, <2>7, <2>8, Zenon
    <2>9. CASE k % 2 # 1
      BY <1>1, <2>5, <2>6, <2>7, <2>9, Zenon
    <2> QED BY <2>8, <2>9
  <1>8. t = ToHexString(d)
    <2>1. t = [k \in 1..2 * N |-> t[k]]
      BY DEF Text
    <2>2. ToHexString(d) = [k \in 1..2 * N |-> ToHexString(d)[k]]
      BY DEF ToHexString
    <2> HIDE DEF d
    <2> QED BY <1>7, <2>1, <2>2
  <1>9. Ok(d).digest = d
    BY DEF Ok
  <1> HIDE DEF d
  <1>10. Parse(t).digest = d
    BY <1>6, <1>9
  <1>11. t = ToHexString(Parse(t).digest)
    BY <1>8, <1>10
  <1> QED BY <1>6, <1>11, ZenonT(30) DEF d

\* Every other text is refused.
LEMMA OthersRefused ==
  ASSUME NEW t \in Text, ~(Len(t) = 2 * N /\ \A k \in 1..Len(t) : t[k] \in Lower)
  PROVE  Parse(t).error # "none"
  <1>1. CASE Len(t) # 2 * N
    BY <1>1 DEF Parse, Err
  <1>2. CASE Len(t) = 2 * N
    <2>1. PICK k \in 1..Len(t) : t[k] \notin Lower
      BY <1>2
    <2>2. t[k] \in Upper \cup [kind : {"space", "plus", "minus", "other"}, v : {0}]
      BY <2>1 DEF Text
    <2>3. Offends(t[k])
      BY <2>2 DEF Offends, IsXDigit, Upper
    <2> QED BY <1>2, <2>3 DEF Parse, Err
  <1> QED BY <1>1, <1>2

\* What is written is a text of lower-case digits that reads as the digest.
LEMMA WrittenParsed ==
  ASSUME NEW d \in Digest
  PROVE  ToHexString(d) \in Text /\ Parse(ToHexString(d)) = Ok(d)
  <1> DEFINE t == ToHexString(d)
  <1>0. N \in Nat /\ N > 0
    BY IdConstants
  <1>1. ASSUME NEW k \in 1..2 * N
        PROVE  t[k] \in Lower
    <2>1. (k + 1) \div 2 \in 1..N
      BY PlaceOf
    <2>2. d[(k + 1) \div 2] \in Byte
      BY <2>1 DEF Digest
    <2> QED BY <2>2, DigitsOfByte DEF ToHexString, LowerDigit, Lower
  <1>2. t = [k \in 1..2 * N |-> t[k]] /\ 2 * N \in Nat
    BY <1>0 DEF ToHexString
  <1>3. t \in Text /\ Len(t) = 2 * N
    <2> HIDE DEF t
    <2> QED BY <1>1, <1>2 DEF Text
  <1>4. ASSUME NEW k \in 1..N
        PROVE  16 * t[2 * k - 1].v + t[2 * k].v = d[k]
    <2>1. d[k] \in Byte
      BY DEF Digest
    <2>2. t[2 * k - 1].v = d[k] \div 16 /\ t[2 * k].v = d[k] % 16
      BY Places DEF ToHexString, LowerDigit
    <2>3. PICK b \in Byte : b = d[k]
      BY <2>1
    <2>4. 16 * (b \div 16) + (b % 16) = b
      BY DigitsOfByte, SMTT(30)
    <2> HIDE DEF t
    <2> QED BY <2>2, <2>3, <2>4, Zenon
  <1>5. Parse(t) = Ok([k \in 1..N |-> 16 * t[2 * k - 1].v + t[2 * k].v])
    BY <1>1, <1>3, LowerParsed
  <1>6. [k \in 1..N |-> 16 * t[2 * k - 1].v + t[2 * k].v] = d
    <2> HIDE DEF t
    <2> QED BY <1>4 DEF Digest
  <1> QED BY <1>3, <1>5, <1>6, ZenonT(30)

\* Both hold of each call that is made, whatever was called before.
LEMMA IdInvariant == IdSpec => [](ParseExact /\ RoundTrip)
  <1> DEFINE Inv == ParseExact /\ RoundTrip
  <1>1. IdInit => Inv
    BY IdConstants DEF IdInit, ParseExact, RoundTrip, Err
  <1>2. Inv /\ [IdNext]_idVars => Inv'
    <2> SUFFICES ASSUME Inv, [IdNext]_idVars PROVE Inv'
      OBVIOUS
    <2>1. ASSUME NEW t \in HexTexts, ParseText(t) PROVE Inv'
      <3>1. t \in Text /\ text' = t /\ result' = Parse(t) /\ given' = NoDigest
        BY <2>1, IdConstants DEF ParseText
      <3>2. RoundTrip'
        BY <3>1 DEF RoundTrip, NoDigest
      <3>3. ParseExact'
        <4>1. CASE Len(t) = 2 * N /\ \A k \in 1..Len(t) : t[k] \in Lower
          <5>1. Parse(t).error = "none" /\ t = ToHexString(Parse(t).digest)
            BY <3>1, <4>1, LowerParsed DEF Ok
          <5> QED BY <3>1, <4>1, <5>1, ZenonT(30) DEF ParseExact, ToHexString, Lower
        <4>2. CASE ~(Len(t) = 2 * N /\ \A k \in 1..Len(t) : t[k] \in Lower)
          <5>1. Parse(t).error # "none"
            BY <3>1, <4>2, OthersRefused
          <5> QED BY <3>1, <4>2, <5>1 DEF ParseExact
        <4> QED BY <4>1, <4>2, SMTT(30)
      <3> QED BY <3>2, <3>3
    <2>2. ASSUME NEW d \in Digests, FromDigest(d) PROVE Inv'
      <3>1. d \in Digest /\ text' = ToHexString(d) /\ result' = Parse(ToHexString(d)) /\ given' = d
        BY <2>2, IdConstants DEF FromDigest
      <3>2. result' = Ok(d) /\ text' \in Text
        BY <3>1, WrittenParsed
      <3>3. RoundTrip'
        BY <3>1, <3>2 DEF RoundTrip, Ok, NoDigest
      <3>4. ParseExact'
        <4>1. PICK t \in Text : t = text'
          BY <3>2
        <4>2. result' = Parse(t)
          BY <3>1, <4>1, SMTT(30)
        <4>3. CASE Len(t) = 2 * N /\ \A k \in 1..Len(t) : t[k] \in Lower
          <5>1. Parse(t).error = "none" /\ t = ToHexString(Parse(t).digest)
            BY <4>3, LowerParsed DEF Ok
          <5> QED BY <4>1, <4>2, <4>3, <5>1, ZenonT(30) DEF ParseExact, ToHexString, Lower
        <4>4. CASE ~(Len(t) = 2 * N /\ \A k \in 1..Len(t) : t[k] \in Lower)
          <5>1. Parse(t).error # "none"
            BY <4>4, OthersRefused
          <5> QED BY <4>1, <4>2, <4>4, <5>1 DEF ParseExact
        <4> QED BY <4>3, <4>4
      <3> QED BY <3>3, <3>4
    <2>3. CASE UNCHANGED idVars
      BY <2>3, Zenon DEF idVars, ParseExact, RoundTrip
    <2> QED BY <2>1, <2>2, <2>3, Zenon DEF IdNext
  <1> QED BY <1>1, <1>2, PTL DEF IdSpec

\* For digests of any length and all texts: Parse accepts one spelling of each
\* id, the one that ToHexString writes.
THEOREM IdsSpelledOnce == IdSpec => []ParseExact
  BY IdInvariant, PTL

\* For digests of any length: an id is found again from the text it was written
\* as, so no two digests are written alike.
THEOREM IdsReadBack == IdSpec => []RoundTrip
  BY IdInvariant, PTL

-----------------------------------------------------------------------------
(* Lease                                                                    *)

LeaseInv ==
  /\ issuer \in Int /\ judge \in Int /\ issued_at \in Int /\ ttl \in Int
  /\ issuer - judge <= Tolerance /\ judge - issuer <= Tolerance
  /\ asked \in [now : Int, expires : Int]
  /\ ExpiryWithinSkew

\* However the clocks move, for any tolerance and any lifetimes, IsExpired is
\* never early by the issuer's clock, and late by two tolerances at most.
THEOREM LeasesJudged == LeaseSpec => []ExpiryWithinSkew
  <1>1. LeaseInit => LeaseInv
    <2> SUFFICES ASSUME LeaseInit PROVE LeaseInv
      OBVIOUS
    <2>1. asked.now = 0 /\ asked.expires = 0 /\ ~(0 > 0 + 2 * Tolerance)
      BY LeaseConstants DEF LeaseInit
    <2>2. ExpiryWithinSkew
      BY <2>1, Zenon DEF LeaseInit, ExpiryWithinSkew
    <2> QED BY <2>2, LeaseConstants DEF LeaseInit, LeaseInv
  <1>2. LeaseInv /\ [LeaseNext]_leaseVars => LeaseInv'
    <2> SUFFICES ASSUME LeaseInv, [LeaseNext]_leaseVars PROVE LeaseInv'
      OBVIOUS
    <2>0. Tolerance \in Nat
      BY LeaseConstants
    <2>1. ASSUME NEW a \in 0..MaxTime, NEW b \in 0..MaxTime, SetTo(a, b) PROVE LeaseInv'
      BY <2>1, LeaseConstants DEF SetTo, LeaseInv, ExpiryWithinSkew
    <2>2. ASSUME NEW d \in 0..MaxTtl, IssueNow(d) PROVE LeaseInv'
      BY <2>2, LeaseConstants DEF IssueNow, LeaseInv, ExpiryWithinSkew
    <2>3. CASE Ask
      <3>1. /\ asked' = [now |-> issuer, expires |-> issued_at + ttl]
            /\ UNCHANGED <<issuer, judge, issued_at, ttl>>
        BY <2>3 DEF Ask, ExpiresAt
      <3>2. expired' = IsExpired(judge)
        BY <2>3, Zenon DEF Ask
      <3>3. /\ IsExpired(judge) => issuer > issued_at + ttl
            /\ issuer > issued_at + ttl + 2 * Tolerance => IsExpired(judge)
        BY <2>0 DEF LeaseInv, IsExpired
      <3>4. asked'.now = issuer /\ asked'.expires = issued_at + ttl
        BY <3>1
      <3>5. ExpiryWithinSkew'
        BY <3>2, <3>3, <3>4, Zenon DEF ExpiryWithinSkew
      <3> QED BY <3>1, <3>5 DEF LeaseInv
    <2>4. CASE UNCHANGED leaseVars
      BY <2>4 DEF leaseVars, LeaseInv, ExpiryWithinSkew
    <2> QED BY <2>1, <2>2, <2>3, <2>4, Zenon DEF LeaseNext
  <1>3. LeaseInv => ExpiryWithinSkew
    BY DEF LeaseInv
  <1> QED BY <1>1, <1>2, <1>3, PTL DEF LeaseSpec

-----------------------------------------------------------------------------
(* Config: what a node holds is the deployed file, and what it took from it *)
(* stays what it would take again.                                          *)

FileLimit == ValueOr(FromFile("Int64", file.data["cluster_invariant"][LimitKey]), DefaultLimit) % Word

ConfigInv ==
  /\ data = [n \in Nodes |-> data[n]] /\ loaded = [n \in Nodes |-> loaded[n]]
  /\ limit = [n \in Nodes |-> limit[n]] /\ checked = [n \in Nodes |-> checked[n]]
  /\ \A n \in Nodes :
       /\ loaded[n] # "no" => file # Absent
       /\ loaded[n] = "ok" => data[n] = file.data
       /\ limit[n] # Absent => loaded[n] = "ok" /\ limit[n] = FileLimit
       /\ \/ checked[n] = Unchecked
          \/ /\ loaded[n] = "ok" /\ checked[n].schema \in Schemas
             /\ checked[n].errors = {s \in checked[n].schema : Objection(n, s)}

\* A number from 0 to 2^64 - 1 survives its passage as a signed one.
LEMMA SignedBack ==
  ASSUME NEW w \in Nat, w > 1, NEW v \in 0..w - 1
  PROVE  Signed(v, w) % w = v
  <1>1. v % w = v
    BY SMTT(30)
  <1>2. (v - w) % w = v
    BY SMTT(30)
  <1> QED BY <1>1, <1>2 DEF Signed

\* What the nodes read follows from their files alone.
LEMMA ConfigInvariant == ConfigSpec => []ConfigInv
  <1>1. ConfigInit => ConfigInv
    BY DEF ConfigInit, ConfigInv
  <1>2. ConfigInv /\ [ConfigNext]_configVars => ConfigInv'
    <2> SUFFICES ASSUME ConfigInv, [ConfigNext]_configVars PROVE ConfigInv'
      OBVIOUS
    <2>1. ASSUME NEW f \in Files, NEW e \in [Nodes -> Envs], file = Absent, Deploy(f, e)
          PROVE  ConfigInv'
      <3>1. \A n \in Nodes : loaded[n] = "no" /\ limit[n] = Absent /\ checked[n] = Unchecked
        BY <2>1, SMTT(30) DEF ConfigInv
      <3> QED BY <2>1, <3>1, SMTT(30) DEF Deploy, ConfigInv
    <2>2. ASSUME NEW n \in Nodes, LoadFromFile(n) PROVE ConfigInv'
      <3>1. limit[n] = Absent /\ checked[n] = Unchecked
        BY <2>2 DEF ConfigInv, LoadFromFile
      <3>2. /\ file # Absent /\ UNCHANGED <<file, env, checked, limit>>
            /\ data' = [data EXCEPT ![n] = IF LoadResult(n) = "ok" THEN file.data ELSE @]
            /\ loaded' = [loaded EXCEPT ![n] = LoadResult(n)]
        BY <2>2 DEF LoadFromFile
      <3>3. ASSUME NEW m \in Nodes, m # n
            PROVE  data'[m] = data[m] /\ loaded'[m] = loaded[m] /\ \A s : Objection(m, s)' <=> Objection(m, s)
        BY <3>2, <3>3, ZenonT(30) DEF ConfigInv, Objection, GetEnvOverride
      <3>4. FileLimit' = FileLimit
        BY <3>2 DEF FileLimit, FromFile, ValueOr
      <3> QED BY <3>1, <3>2, <3>3, <3>4, ZenonT(30) DEF ConfigInv
    <2>3. ASSUME NEW n \in Nodes, ReadSettings(n) PROVE ConfigInv'
      <3>1. /\ loaded[n] = "ok" /\ limit' = [limit EXCEPT ![n] = LimitOf(n)]
            /\ UNCHANGED <<file, env, loaded, data, checked>>
        BY <2>3 DEF ReadSettings
      <3>2. data[n] = file.data
        BY <3>1, SMTT(30) DEF ConfigInv
      <3>3. LimitOf(n) = FileLimit
        BY <3>2, SMTT(30) DEF LimitOf, FileLimit, Get, GetEnvOverride
      <3>4. FileLimit' = FileLimit /\ \A m, s : Objection(m, s)' <=> Objection(m, s)
        BY <3>1, SMTT(30) DEF FileLimit, FromFile, ValueOr, Objection, GetEnvOverride
      <3> QED BY <3>1, <3>3, <3>4 DEF ConfigInv
    <2>4. ASSUME NEW n \in Nodes, NEW schema \in Schemas, Validate(n, schema) PROVE ConfigInv'
      <3>1. /\ loaded[n] = "ok" /\ UNCHANGED <<file, env, loaded, data, limit>>
            /\ checked' = [checked EXCEPT ![n] = [schema |-> schema,
                                                  errors |-> {s \in schema : Objection(n, s)}]]
        BY <2>4 DEF Validate
      <3>2. FileLimit' = FileLimit /\ \A m, s : Objection(m, s)' <=> Objection(m, s)
        BY <3>1, ZenonT(30) DEF FileLimit, FromFile, ValueOr, Objection, GetEnvOverride
      <3> QED BY <3>1, <3>2, ZenonT(30) DEF ConfigInv
    <2>5. CASE UNCHANGED configVars
      BY <2>5, ZenonT(30) DEF configVars, ConfigInv, FileLimit, FromFile, ValueOr, Objection, GetEnvOverride
    <2> QED BY <2>1, <2>2, <2>3, <2>4, <2>5, Zenon DEF ConfigNext
  <1> QED BY <1>1, <1>2, PTL DEF ConfigSpec

\* Whatever the nodes' environments and however large the words, all enforce
\* the limit of the file.
THEOREM OneLimit == ConfigSpec => []LimitAgreed
  <1>1. ConfigInv => LimitAgreed
    <2> DEFINE j == file.data["cluster_invariant"][LimitKey]
    <2>0. Word \in Nat /\ Word > 1 /\ DefaultLimit \in 0..Word - 1
      BY ConfigConstants, SMTT(30)
    <2>1. ASSUME j # Absent, j.kind = "integer", j.v \in 0..Word - 1
          PROVE  FileLimit = j.v
      <3>1. FileLimit = Signed(j.v, Word) % Word
        BY <2>1 DEF FileLimit, ValueOr, FromFile, KindsRead, Found
      <3> QED BY <2>0, <2>1, <3>1, SignedBack
    <2>2. ASSUME ~(j # Absent /\ j.kind = "integer") PROVE FileLimit = DefaultLimit
      <3>1. FileLimit = DefaultLimit % Word
        BY <2>2 DEF FileLimit, ValueOr, FromFile, KindsRead, Failed
      <3>2. DefaultLimit % Word = DefaultLimit
        BY <2>0, SMTT(30)
      <3> QED BY <3>1, <3>2, SMTT(30)
    <2> HIDE DEF j
    <2>3. ASSUME ConfigInv, NEW n \in Nodes, NEW m \in Nodes, limit[n] # Absent, limit[m] # Absent
          PROVE  limit[n] = FileLimit /\ limit[m] = FileLimit
      BY <2>3, SMTT(30) DEF ConfigInv
    <2> QED BY <2>1, <2>2, <2>3 DEF LimitAgreed, j
  <1> QED BY <1>1, ConfigInvariant, PTL

\* For any schema, file and environment, Validate objects exactly to what the
\* getter of the type would refuse.
THEOREM ValidationForesees == ConfigSpec => []ValidateForesees
  <1>1. ConfigInv => ValidateForesees
    <2> SUFFICES ASSUME ConfigInv, NEW n \in Nodes, NEW s \in checked[n].schema
                 PROVE  LET r == Get(n, s.section, s.key, s.type)
                        IN  s \in checked[n].errors <=>
                              /\ GetEnvOverride(n, s.section, s.key) = Absent
                              /\ r.error # "none"
                              /\ r.error = "KeyNotFound" => s.required
      BY SMTT(30) DEF ValidateForesees
    <2> DEFINE j == data[n][s.section][s.key]
               r == Get(n, s.section, s.key, s.type)
    <2>1. /\ s.type \in {"String", "Int64", "Double", "Bool"} /\ s.required \in BOOLEAN
          /\ s \in checked[n].errors <=> Objection(n, s)
      BY ConfigConstants, SMTT(30) DEF ConfigInv, Unchecked
    <2>2. CASE GetEnvOverride(n, s.section, s.key) # Absent
      BY <2>1, <2>2, SMTT(30) DEF Objection
    <2>3. CASE GetEnvOverride(n, s.section, s.key) = Absent
      <3>1. r = FromFile(s.type, j)
        BY <2>3 DEF Get
      <3>2. KindsRead(s.type) = KindsValid(s.type)
        BY <2>1, SMTT(30) DEF KindsRead, KindsValid
      <3>3. Objection(n, s) <=> IF j = Absent THEN s.required ELSE j.kind \notin KindsRead(s.type)
        BY <2>3, <3>2, SMTT(30) DEF Objection
      <3> HIDE DEF j, r
      <3>4. CASE j = Absent
        <4>1. r = Failed("KeyNotFound")
          BY <3>1, <3>4, Zenon DEF FromFile
        <4>2. r.error = "KeyNotFound"
          BY <4>1 DEF Failed
        <4> QED BY <2>1, <2>3, <3>3, <3>4, <4>2, Zenon DEF r
      <3>5. CASE j # Absent /\ j.kind \notin KindsRead(s.type)
        <4>1. r = Failed("TypeMismatch")
          BY <3>1, <3>5, Zenon DEF FromFile
        <4>2. r.error = "TypeMismatch"
          BY <4>1 DEF Failed
        <4> QED BY <2>1, <2>3, <3>3, <3>5, <4>2, Zenon DEF r
      <3>6. CASE j # Absent /\ j.kind \in KindsRead(s.type)
        <4>1. PICK v : r = Found(v)
          BY <3>1, <3>6, Zenon DEF FromFile
        <4>2. r.error = "none"
          BY <4>1 DEF Found
        <4> QED BY <2>1, <2>3, <3>3, <3>6, <4>2, Zenon DEF r
      <3> QED BY <3>4, <3>5, <3>6, Zenon
    <2> QED BY <2>2, <2>3, SMTT(30)
  <1> QED BY <1>1, ConfigInvariant, PTL

=============================================================================
