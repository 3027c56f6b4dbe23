---------------------------- MODULE PathValidator ----------------------------
(***************************************************************************)
(* PathValidator (libs/common/src/path_validator.cpp): Validate, followed   *)
(* by NormalizeForDisplay on the same path.  The rounds of both loops are  *)
(* steps, so that what they compute is proved from a loop invariant for    *)
(* paths of any length.  start, end and i are the offsets of the code,     *)
(* from 0: path[k + 1] is the character at offset k.                       *)
(***************************************************************************)
EXTENDS Integers, Sequences, FiniteSets

CONSTANTS
  Char, Slash, Dot, Nul,  \* the characters; '/', '.' and '\0'
  Allowed,                \* those that allowed_character_pattern matches
  MaxComponent, MaxPath,  \* max_component_length, max_path_length
  Paths                   \* the paths callers give

ASSUME PathConstants ==
  /\ Paths \subseteq Seq(Char)
  /\ Slash # Dot /\ Slash # Nul /\ Dot # Nul
  /\ MaxComponent \in Nat /\ MaxPath \in Nat

VARIABLES
  path,        \* the argument
  at,          \* where the caller is
  start, end,  \* Validate: the bounds of the component looked at
  verdict,     \* Validate: "ok" or an error
  i, shown     \* NormalizeForDisplay: the loop variable and the result

pathVars == <<path, at, start, end, verdict, i, shown>>

PathInit == /\ path = <<>> /\ at = "idle" /\ verdict = "ok" /\ shown = <<>>
            /\ start = 1 /\ end = 1 /\ i = 0

-----------------------------------------------------------------------------
(* Validate                                                                 *)

\* The checks before the loop.
HeadVerdict(p) ==
  IF p = <<>> \/ p[1] # Slash THEN "NotAbsolute"
  ELSE IF Len(p) > MaxPath THEN "PathTooLong"
  ELSE IF \E k \in 1..Len(p) : p[k] = Nul THEN "ContainsNullByte"
  ELSE "ok"

\* "/" is left without a round of the loop, as the code's own case for it does.
Call(p) ==
  /\ path' = p /\ verdict' = HeadVerdict(p)
  /\ at' = IF verdict' = "ok" /\ Len(p) > 1 THEN "find" ELSE "judged"
  /\ start' = 1 /\ end' = 1 /\ i' = 0 /\ shown' = <<>>

\* path.find('/', start), a character at a time.
AtSlash == end < Len(path) /\ path[end + 1] = Slash

Find ==
  /\ at = "find" /\ end < Len(path) /\ ~AtSlash
  /\ end' = end + 1
  /\ UNCHANGED <<path, at, start, verdict, i, shown>>

\* The checks of the component path.substr(s, e - s).
ComponentVerdict(s, e) ==
  IF e = s THEN "EmptyComponent"
  ELSE IF e - s > MaxComponent THEN "ComponentTooLong"
  ELSE IF e - s = 2 /\ path[s + 1] = Dot /\ path[s + 2] = Dot
    THEN "ContainsParentTraversal"
  ELSE IF \E k \in s + 1..e : path[k] \notin Allowed THEN "InvalidCharacter"
  ELSE "ok"

\* Mutant: the loop takes a slash that ends the path for a component to come.
Component_Trailing ==
  /\ at = "find" /\ (end = Len(path) \/ AtSlash)
  /\ verdict' = ComponentVerdict(start, end)
  /\ at' = IF verdict' = "ok" /\ end < Len(path) THEN "find" ELSE "judged"
  /\ start' = end + 1 /\ end' = end + 1
  /\ UNCHANGED <<path, i, shown>>

Component ==
  /\ at = "find" /\ (end = Len(path) \/ AtSlash)
  /\ verdict' = ComponentVerdict(start, end)
  /\ at' = IF verdict' = "ok" /\ end + 1 < Len(path) THEN "find" ELSE "judged"
  /\ start' = end + 1 /\ end' = end + 1
  /\ UNCHANGED <<path, i, shown>>

-----------------------------------------------------------------------------
(* NormalizeForDisplay                                                      *)

\* Mutant: the slash is compared with the path before it, one place off.
Repeats_Off(c) == c = Slash /\ i > 1 /\ path[i - 1] = Slash

\* Mutant: every slash after the first character is dropped.
Repeats_Any(c) == c = Slash /\ shown # <<>>

\* path[i] == '/' && result.back() == '/'; nothing precedes the first character.
Repeats(c) == c = Slash /\ shown # <<>> /\ shown[Len(shown)] = Slash

Show ==
  /\ at = "judged" /\ i < Len(path)
  /\ shown' = IF Repeats(path[i + 1]) THEN shown ELSE Append(shown, path[i + 1])
  /\ i' = i + 1
  /\ UNCHANGED <<path, at, start, end, verdict>>

Shown ==
  /\ at = "judged" /\ i = Len(path)
  /\ at' = "done"
  /\ UNCHANGED <<path, start, end, verdict, i, shown>>

PathNext == (at = "idle" /\ \E p \in Paths : Call(p)) \/ Find \/ Component \/ Show \/ Shown
PathSpec == PathInit /\ [][PathNext]_pathVars

-----------------------------------------------------------------------------
(* What the two are to compute, said without a scan                         *)

\* The defects.  A component is what lies between two slashes, or between the
\* last slash and the end unless nothing follows it.
Relative(p) == p = <<>> \/ p[1] # Slash
Overlong(p) == Len(p) > MaxPath
HasNul(p)   == \E k \in 1..Len(p) : p[k] = Nul
DoubleSlash(p) == \E k \in 2..Len(p) : p[k - 1] = Slash /\ p[k] = Slash
LongComponent(p) ==
  \E j, k \in 2..Len(p) : k - j >= MaxComponent /\ \A n \in j..k : p[n] # Slash
ParentComponent(p) ==
  \E k \in 2..Len(p) - 1 : /\ p[k - 1] = Slash /\ p[k] = Dot /\ p[k + 1] = Dot
                           /\ k + 1 = Len(p) \/ p[k + 2] = Slash
BadCharacter(p) == \E k \in 2..Len(p) : p[k] # Slash /\ p[k] \notin Allowed

\* Validate accepts a path exactly when it has none of the defects, wherever
\* in the path the defect is, and an error names a defect the path has.
VerdictRight ==
  at \in {"judged", "done"} =>
    \/ verdict = "NotAbsolute"             /\ Relative(path)
    \/ verdict = "PathTooLong"             /\ Overlong(path)
    \/ verdict = "ContainsNullByte"        /\ HasNul(path)
    \/ verdict = "EmptyComponent"          /\ DoubleSlash(path)
    \/ verdict = "ComponentTooLong"        /\ LongComponent(path)
    \/ verdict = "ContainsParentTraversal" /\ ParentComponent(path)
    \/ verdict = "InvalidCharacter"        /\ BadCharacter(path)
    \/ /\ verdict = "ok"
       /\ ~Relative(path) /\ ~Overlong(path) /\ ~HasNul(path) /\ ~DoubleSlash(path)
       /\ ~LongComponent(path) /\ ~ParentComponent(path) /\ ~BadCharacter(path)

\* Where the first m characters of p are no slash that follows a slash.
Kept(p, m) == {k \in 1..m : k = 1 \/ p[k] # Slash \/ p[k - 1] # Slash}

\* NormalizeForDisplay drops the repeated slashes and nothing else, and keeps the
\* order, although it compares with what it has kept and not with the path: each
\* character kept is shown at the place that the count of those up to it gives.
DisplayCollapses ==
  at = "done" =>
    /\ Len(shown) = Cardinality(Kept(path, Len(path)))
    /\ \A k \in Kept(path, Len(path)) : shown[Cardinality(Kept(path, k))] = path[k]

\* A path that Validate accepts is shown as it is, and what is shown never has
\* two slashes in a row, so showing it again changes nothing.
ValidShownAsIs ==
  at = "done" => /\ verdict = "ok" => shown = path
                 /\ ~DoubleSlash(shown)
=============================================================================
