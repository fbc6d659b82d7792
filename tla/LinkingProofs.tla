--------------------------- MODULE LinkingProofs ---------------------------
(***************************************************************************)
(* The safety of connect and use in linked directories, for any number of  *)
(* people, directories and projects.                                       *)
(***************************************************************************)
EXTENDS Linking, TLAPS

Same(r) ==
    /\ cmd'[r] = cmd[r] /\ at'[r] = at[r] /\ seen'[r] = seen[r] /\ target'[r] = target[r] /\ next'[r] = next[r]

JobType ==
    /\ cmd \in [People -> Command \cup {AnyCommand}]
    /\ at \in [People -> Place]
    /\ seen \in [People -> Seen]
    /\ target \in [People -> Target]
    /\ next \in [People -> Command \cup {AnyCommand}]

MadeType == made \in [People -> SUBSET Projects]

OthersSame(p) == \A r \in People \ {p} : Same(r)

(***************************************************************************)
(* What the helpers of the actions do.                                     *)
(***************************************************************************)
LEMMA Jobs == TypeOK => JobType /\ MadeType
  BY DEF TypeOK, JobType, MadeType

\* What the invariant says of a command that runs.
LEMMA Facts ==
  ASSUME LinkingInv, NEW p \in People
  PROVE  /\ PlaceOf(p) /\ CourseOf(p) /\ (p \notin late => ReadOf(p)) /\ TypeOK
         /\ cmd[p] \in Command \cup {AnyCommand} /\ next[p] \in Command \cup {AnyCommand} /\ target[p] \in Target
         /\ seen[p] \in Seen /\ runs \in 0..MaxRuns /\ late \subseteq People /\ made[p] \subseteq Projects
         /\ link \in [Dirs -> Projects \cup {"none", "bad"}]
  BY DEF LinkingInv, PlaceInv, CourseInv, ReadInv, TypeOK

LEMMA NoneTyped == NoTarget \in Target /\ NoLink \in Seen
  BY DEF NoTarget, Target, NoLink, Seen

LEMMA MovesEffect ==
  ASSUME JobType, NEW p \in People, NEW place \in Place, NEW t \in Target, Moves(p, place, t)
  PROVE  /\ JobType' /\ OthersSame(p)
         /\ at'[p] = place /\ target'[p] = t /\ cmd'[p] = cmd[p] /\ seen'[p] = seen[p] /\ next'[p] = next[p]
  BY DEF JobType, Moves, Set, OthersSame, Same

LEMMA HaltsEffect ==
  ASSUME JobType, NEW p \in People, NEW n \in Command \cup {AnyCommand}, Halts(p, n)
  PROVE  /\ JobType' /\ OthersSame(p)
         /\ at'[p] = "idle" /\ target'[p] = NoTarget /\ cmd'[p] = AnyCommand /\ seen'[p] = NoLink /\ next'[p] = n
  BY NoneTyped DEF JobType, Halts, Set, OthersSame, Same, Place

LEMMA GoEffect ==
  ASSUME TypeOK, NEW p \in People, NEW place \in Place, NEW t \in Target, Go(p, place, t)
  PROVE  /\ JobType' /\ MadeType' /\ OthersSame(p) /\ made' = made
         /\ at'[p] = place /\ target'[p] = t /\ cmd'[p] = cmd[p] /\ seen'[p] = seen[p] /\ next'[p] = next[p]
  BY Jobs, MovesEffect DEF Go, MadeType

LEMMA StopsEffect ==
  ASSUME TypeOK, NEW p \in People, NEW n \in Command \cup {AnyCommand}, Stops(p, n)
  PROVE  /\ JobType' /\ MadeType' /\ OthersSame(p)
         /\ \A r \in People \ {p} : made'[r] = made[r]
         /\ made'[p] = IF n = AnyCommand THEN {} ELSE made[p]
         /\ at'[p] = "idle" /\ target'[p] = NoTarget /\ cmd'[p] = AnyCommand /\ seen'[p] = NoLink /\ next'[p] = n
  BY Jobs, HaltsEffect DEF Stops, MadeType, Set

LEMMA ConnectTyped ==
  ASSUME NEW d \in Dirs \cup {"none"}, NEW q \in Projects \cup {"none"}
  PROVE  /\ Connect(d, q) \in Command /\ Connect(d, q) # AnyCommand
         /\ Connect(d, q).kind = "connect" /\ Connect(d, q).project = q /\ Connect(d, q).named = "no"
         /\ Connect(d, q).dir = d
  BY DEF Connect, Command, AnyCommand

LEMMA CommandFields ==
  ASSUME NEW c \in Command \cup {AnyCommand}
  PROVE  /\ c.kind \in {"connect", "use"} /\ c.dir \in Dirs \cup {"none"} /\ c.project \in Projects \cup {"none"}
         /\ c.named \in {"yes", "no", "any"} /\ Start(c) \in Dirs
         /\ c \in Command => c.named # "any" /\ c # AnyCommand
  BY DEF Command, AnyCommand, Start, Dirs

(***************************************************************************)
(* What stays so for those a step is not about.                            *)
(***************************************************************************)
\* Statuses only move on.
StatusMoves ==
    \A q \in Projects : status[q] # "none" =>
        /\ status'[q] # "none"
        /\ Exists(q)' => Exists(q)
        /\ Usable(q)' => Usable(q)

LEMMA OthersKeep ==
  ASSUME LinkingInv, NEW r \in People, Same(r), made'[r] = made[r], link' = link, StatusMoves,
         r \in late => r \in late'
  PROVE  PlaceOf(r)' /\ CourseOf(r)' /\ (r \notin late' => ReadOf(r)')
  <1> USE DEF LinkingInv, Same, StatusMoves
  <1>0. cmd[r] \in Command \cup {AnyCommand} /\ link \in [Dirs -> Projects \cup {"none", "bad"}] /\ made[r] \subseteq Projects
    BY DEF TypeOK
  <1>1. PlaceOf(r)'
    BY <1>0 DEF PlaceInv, PlaceOf, Using, Placed, Start
  <1>2. CourseOf(r)'
    BY <1>0 DEF CourseInv, CourseOf, LinkInv, Finds, BadLink, Asked, Start, Placed
  <1>3. ASSUME r \notin late' PROVE ReadOf(r)'
    BY <1>0, <1>3, CommandFields DEF ReadInv, ReadOf, PlaceInv, PlaceOf, LinkInv, Taken, Placed, Start
  <1> QED
    BY <1>1, <1>2, <1>3

\* A step that leaves the files and the projects alone.
LEMMA QuietSafe ==
  ASSUME LinkingInv, NEW p \in People, UNCHANGED <<files, server, cut, raced>>, runs' \in 0..MaxRuns, JobType', MadeType',
         OthersSame(p), \A r \in People \ {p} : made'[r] = made[r], made'[p] \subseteq made[p],
         late' \subseteq People, \A r \in People \ {p} : r \in late => r \in late',
         PlaceOf(p)', CourseOf(p)', p \notin late' => ReadOf(p)'
  PROVE  LinkingInv'
  <1> USE DEF files, server
  <1>1. \A r \in People \ {p} : PlaceOf(r)' /\ CourseOf(r)' /\ (r \notin late' => ReadOf(r)')
    BY OthersKeep DEF OthersSame, StatusMoves, Exists, Usable
  <1>2. TypeOK'
    BY DEF LinkingInv, TypeOK, JobType, MadeType
  <1>3. PlaceInv' /\ CourseInv' /\ ReadInv'
    BY <1>1 DEF PlaceInv, CourseInv, ReadInv
  <1>4. LinkInv'
    BY DEF LinkingInv, LinkInv
  <1>5. OneProjectEach'
    BY DEF LinkingInv, OneProjectEach, Usable
  <1> QED
    BY <1>2, <1>3, <1>4, <1>5 DEF LinkingInv

\* A step that leaves the links alone.
LEMMA LinksKept ==
  ASSUME LinkingInv, NEW p \in People, link' = link, TypeOK', StatusMoves,
         \A d \in Dirs : contents[d] = "files" => contents'[d] = "files",
         OthersSame(p), \A r \in People \ {p} : made'[r] = made[r], \A q \in made'[p] : status'[q] # "none",
         made'[p] \subseteq made[p] \/ \A q \in made'[p] : Usable(q)' => q = target'[p].project,
         late' = late, PlaceOf(p)', CourseOf(p)', p \notin late => ReadOf(p)'
  PROVE  LinkingInv'
  <1>1. \A r \in People \ {p} : PlaceOf(r)' /\ CourseOf(r)' /\ (r \notin late' => ReadOf(r)')
    BY OthersKeep DEF OthersSame
  <1>2. PlaceInv' /\ CourseInv' /\ ReadInv'
    BY <1>1 DEF PlaceInv, CourseInv, ReadInv
  <1>3. LinkInv'
    <2>1. \A r \in People \ {p} : \A q \in made'[r] : status'[q] # "none"
      BY DEF LinkingInv, LinkInv, TypeOK, StatusMoves
    <2> QED
      BY <2>1 DEF LinkingInv, LinkInv, StatusMoves
  <1>4. OneProjectEach'
    <2>1. ASSUME NEW r \in People, made'[r] \subseteq made[r], NEW x \in made'[r], NEW y \in made'[r],
                 Usable(x)', Usable(y)'
          PROVE  x = y
      <3>1. /\ x \in Projects /\ y \in Projects /\ status[x] # "none" /\ status[y] # "none"
            /\ x \in made[r] /\ y \in made[r]
        BY <2>1 DEF LinkingInv, LinkInv, TypeOK
      <3> QED
        BY <2>1, <3>1 DEF LinkingInv, OneProjectEach, StatusMoves
    <2> QED
      BY <2>1 DEF OneProjectEach
  <1> QED
    BY <1>2, <1>3, <1>4 DEF LinkingInv

\* A step that may write the link of directory d: whom it concerns is late, and
\* has no project in it any more.
LEMMA RelinkSafe ==
  ASSUME LinkingInv, NEW p \in People, NEW d \in Dirs, NEW l \in Projects \cup {"none", "bad"}, NEW mine,
         link' = Set(link, d, l), l \in Projects => status[l] # "none" /\ contents'[d] = "files",
         \A e \in Dirs : contents[e] = "files" => contents'[e] = "files",
         status' = status, TypeOK', OthersSame(p), Relinks(p, d, mine), mine \subseteq made[p],
         PlaceOf(p)', CourseOf(p)', p \notin late => ReadOf(p)'
  PROVE  LinkingInv'
  <1> USE DEF LinkingInv
  <1>1. /\ link'[d] = l /\ (\A e \in Dirs \ {d} : link'[e] = link[e])
        /\ link \in [Dirs -> Projects \cup {"none", "bad"}]
    BY DEF TypeOK, Set
  <1>2. late \subseteq late' /\ (p \in late' => p \in late)
    BY DEF Relinks, TypeOK
  <1>3. ASSUME NEW r \in People \ {p}
        PROVE  PlaceOf(r)' /\ CourseOf(r)' /\ (r \notin late' => ReadOf(r)')
    <2>1. /\ PlaceOf(r) /\ CourseOf(r) /\ (r \notin late' => ReadOf(r)) /\ Same(r)
          /\ cmd[r] \in Command \cup {AnyCommand} /\ next[r] \in Command \cup {AnyCommand}
      BY <1>2, <1>3, Facts DEF OthersSame
    <2>2. /\ made'[r] \subseteq made[r]
          /\ l # link[d] => \A q \in made'[r] : q # link[d] /\ link[d] # "bad"
      BY <1>1 DEF Relinks
    <2>3. PlaceOf(r)'
      BY <2>1, <2>2 DEF PlaceOf, Same, Using, Placed, Start
    <2>4. CourseOf(r)'
      <3>1. Start(cmd[r]) \in Dirs /\ Start(next[r]) \in Dirs
        BY <2>1, CommandFields
      <3>2. ASSUME NEW c \in Command \cup {AnyCommand}, NEW q \in made'[r], Start(c) \in Dirs,
                   Finds(c, q) \/ BadLink(c)
            PROVE  Finds(c, q)' \/ BadLink(c)'
        BY <1>1, <2>2, <3>2 DEF Finds, BadLink
      <3>3. ASSUME NEW q \in made'[r], at[r] = "setUp", link[target[r].dir] = q, target[r].dir \in Dirs
            PROVE  link'[target[r].dir] = q
        BY <1>1, <2>2, <3>3
      <3>4. ASSUME NEW q \in made'[r], Usable(q)'
            PROVE  \/ at'[r] = "idle" /\ (Finds(next[r], q) \/ BadLink(next[r]))'
                   \/ at'[r] \in {"signIn", "look"} /\ cmd'[r].named = "no" /\ (Finds(cmd[r], q) \/ BadLink(cmd[r]))'
                   \/ /\ at'[r] \in {"get", "place"} \cup Placed /\ target'[r].project = q
                      /\ target'[r].created = "no" => cmd'[r].named = "no" /\ Finds(cmd[r], q)'
                      /\ at'[r] = "setUp" => link'[target'[r].dir] = q
        <4>1. q \in made[r] /\ Usable(q)
          BY <2>2, <3>4 DEF Usable
        <4>2. CASE at[r] = "idle"
          BY <2>1, <3>1, <3>2, <4>1, <4>2 DEF CourseOf, Same, Placed, Finds, BadLink
        <4>3. CASE at[r] \in {"signIn", "look"}
          BY <2>1, <3>1, <3>2, <4>1, <4>3 DEF CourseOf, Same, Placed, Finds, BadLink
        <4>4. CASE at[r] \notin {"idle", "signIn", "look"}
          <5>1. Finds(cmd[r], q) => Finds(cmd[r], q)'
            BY <1>1, <2>1, <2>2, <3>1, <3>4 DEF Finds, Same
          <5> QED
            BY <2>1, <3>3, <3>4, <4>1, <4>4, <5>1 DEF CourseOf, Same, PlaceOf, Placed
        <4> QED
          BY <4>2, <4>3, <4>4
      <3> QED
        BY <3>4 DEF CourseOf
    <2>5. ASSUME r \notin late' PROVE ReadOf(r)'
      <3>1. at[r] = "idle" \/ DirOf(r) # d \/ link' = link
        BY <1>1, <1>3, <2>5 DEF Relinks, TypeOK
      <3> QED
        BY <1>1, <2>1, <2>5, <3>1, CommandFields DEF ReadOf, PlaceOf, Using, Placed, Same, DirOf, Taken, Exists, Start
    <2> QED
      BY <2>3, <2>4, <2>5
  <1>4. PlaceInv' /\ CourseInv' /\ ReadInv'
    BY <1>2, <1>3 DEF PlaceInv, CourseInv, ReadInv
  <1>5. LinkInv'
    <2>1. \A r \in People : made'[r] \subseteq made[r]
      BY DEF Relinks
    <2> QED
      BY <1>1, <2>1 DEF LinkInv
  <1>6. OneProjectEach'
    BY DEF Relinks, OneProjectEach, Usable
  <1> QED
    BY <1>4, <1>5, <1>6

\* A command that ended is as the next one.
LEMMA IdleSafe ==
  ASSUME NEW p \in People, at'[p] = "idle", next'[p].kind = "connect", cmd'[p] = AnyCommand,
         next'[p] = AnyCommand => made'[p] = {},
         target'[p] = NoTarget, \A q \in made'[p] : Usable(q)' => (Finds(next[p], q) \/ BadLink(next[p]))'
  PROVE  PlaceOf(p)' /\ CourseOf(p)' /\ ReadOf(p)'
  BY DEF PlaceOf, CourseOf, ReadOf, Using, Placed, AnyCommand, NoTarget

LEMMA StopsQuiet ==
  ASSUME LinkingInv, NEW p \in People, NEW n \in Command \cup {AnyCommand}, n.kind = "connect",
         n = AnyCommand \/ \A q \in made[p] : Usable(q) => Finds(n, q) \/ BadLink(n),
         Stops(p, n),
         UNCHANGED <<files, server, cut, raced>>, runs' \in 0..MaxRuns,
         late' \subseteq People, \A r \in People \ {p} : r \in late => r \in late'
  PROVE  LinkingInv'
  <1>1. TypeOK
    BY DEF LinkingInv
  <1>2. PlaceOf(p)' /\ CourseOf(p)' /\ ReadOf(p)'
    BY <1>1, StopsEffect, IdleSafe DEF files, server, Usable, Finds, BadLink, Asked
  <1> QED
    BY <1>1, <1>2, StopsEffect, QuietSafe

LEMMA GoQuiet ==
  ASSUME LinkingInv, NEW p \in People, NEW place \in Place, NEW t \in Target, Go(p, place, t),
         UNCHANGED <<files, server, runs, history>>,
         PlaceOf(p)', CourseOf(p)', p \notin late' => ReadOf(p)'
  PROVE  LinkingInv'
  BY GoEffect, QuietSafe DEF LinkingInv, TypeOK, history

(***************************************************************************)
(* One lemma for each action.                                              *)
(***************************************************************************)
LEMMA SignInSafe ==
  ASSUME LinkingInv, NEW p \in People, SignIn(p)
  PROVE  LinkingInv'
  <1> DEFINE g == [NoTarget EXCEPT !.dir = cmd[p].dir, !.project = cmd[p].project]
  <1>1. /\ PlaceOf(p) /\ CourseOf(p) /\ TypeOK /\ at[p] = "signIn" /\ UNCHANGED <<files, server, runs, history>>
        /\ cmd[p] \in Command \cup {AnyCommand} /\ made[p] \subseteq Projects
    BY Facts DEF SignIn
  <1>2. CASE cmd[p].project = "none" /\ Go(p, "look", NoTarget)
    <2>1. PlaceOf(p)' /\ CourseOf(p)' /\ ReadOf(p)'
      BY <1>1, <1>2, NoneTyped, GoEffect
         DEF PlaceOf, CourseOf, ReadOf, Using, Placed, Place, files, server, Usable, Finds, BadLink, Asked
    <2> QED
      BY <1>1, <1>2, <2>1, NoneTyped, GoQuiet DEF Place
  <1>3. CASE cmd[p].project # "none" /\ Go(p, "get", g)
    <2>1. g \in Target /\ g.created = "no" /\ g.dir = cmd[p].dir /\ g.project = cmd[p].project /\ g.project \in Projects
      BY <1>1, <1>3, CommandFields DEF NoTarget, Target
    <2>2. at'[p] = "get" /\ target'[p] = g /\ cmd'[p] = cmd[p] /\ made' = made /\ status' = status /\ link' = link
      BY <1>1, <1>3, <2>1, GoEffect DEF Place, files, server
    <2>3. PlaceOf(p)'
      BY <1>1, <1>3, <2>1, <2>2 DEF PlaceOf, Using, Placed
    <2>4. CourseOf(p)'
      BY <1>1, <1>3, <2>1, <2>2 DEF CourseOf, Placed, Usable, Finds, BadLink, Asked
    <2>5. ReadOf(p)'
      BY <1>1, <1>3, <2>1, <2>2 DEF ReadOf, Placed
    <2> QED
      BY <1>1, <1>3, <2>1, <2>3, <2>4, <2>5, GoQuiet DEF Place
  <1>4. CASE Stops(p, cmd[p])
    BY <1>1, <1>4, StopsQuiet, CommandFields DEF PlaceOf, CourseOf, Using, Placed, history, TypeOK
  <1> QED
    BY <1>2, <1>3, <1>4 DEF SignIn

LEMMA LookSafe ==
  ASSUME LinkingInv, NEW p \in People, Look(p)
  PROVE  LinkingInv'
  <1> DEFINE c == cmd[p]
             d == Start(c)
             g == [NoTarget EXCEPT !.dir = d, !.project = link[d]]
             h == [NoTarget EXCEPT !.dir = IF c.dir = "none" /\ ~Linked(d) THEN "none" ELSE d]
  <1>1. /\ PlaceOf(p) /\ CourseOf(p) /\ (p \notin late => ReadOf(p)) /\ TypeOK /\ at[p] = "look"
        /\ UNCHANGED <<files, server, runs, history>>
        /\ c \in Command \cup {AnyCommand} /\ made[p] \subseteq Projects /\ d \in Dirs
        /\ link \in [Dirs -> Projects \cup {"none", "bad"}] /\ c.project = "none"
    BY Facts, CommandFields DEF Look, PlaceOf
  <1>2. CASE BadLink(c) /\ Stops(p, AnyCommand)
    BY <1>1, <1>2, StopsQuiet DEF history, TypeOK, AnyCommand
  <1>3. CASE link[d] \in Projects /\ Go(p, "get", g)
    <2>1. g \in Target /\ g.created = "no" /\ g.dir = d /\ g.project = link[d]
      BY <1>1, <1>3 DEF NoTarget, Target
    <2>2. at'[p] = "get" /\ target'[p] = g /\ cmd'[p] = c /\ made' = made /\ status' = status /\ link' = link
      BY <1>1, <1>3, <2>1, GoEffect DEF Place, files, server
    <2>3. PlaceOf(p)'
      BY <1>1, <1>3, <2>1, <2>2 DEF PlaceOf, Using, Placed
    <2>4. CourseOf(p)'
      BY <1>1, <1>3, <2>1, <2>2, LinkingAssumption DEF CourseOf, Placed, Usable, Finds, BadLink
    <2>5. ReadOf(p)'
      BY <1>1, <1>3, <2>1, <2>2 DEF ReadOf, Placed
    <2> QED
      BY <1>1, <1>3, <2>1, <2>3, <2>4, <2>5, GoQuiet DEF Place
  <1>4. CASE ~BadLink(c) /\ link[d] \notin Projects /\ Go(p, "create", h)
    <2>1. h \in Target /\ h.created = "no" /\ h.dir \in {"none", d}
      BY <1>1, <1>4 DEF NoTarget, Target
    <2>2. at'[p] = "create" /\ target'[p] = h /\ cmd'[p] = c /\ made' = made /\ status' = status /\ link' = link
      BY <1>1, <1>4, <2>1, GoEffect DEF Place, files, server
    <2>3. PlaceOf(p)'
      BY <1>1, <1>4, <2>1, <2>2 DEF PlaceOf, Using, Placed
    <2>4. CourseOf(p)'
      BY <1>1, <1>4, <2>1, <2>2, LinkingAssumption DEF CourseOf, Placed, Usable, Finds
    <2>5. ReadOf(p)'
      BY <1>1, <1>4, <2>1, <2>2 DEF ReadOf, Placed, Taken
    <2> QED
      BY <1>1, <1>4, <2>1, <2>3, <2>4, <2>5, GoQuiet DEF Place
  <1> QED
    BY <1>2, <1>3, <1>4 DEF Look

LEMMA GetSafe ==
  ASSUME LinkingInv, NEW p \in People, Get(p)
  PROVE  LinkingInv'
  <1> DEFINE c == cmd[p]
             t == target[p]
             g == [t EXCEPT !.ready = Ready(t.project)]
  <1>1. /\ PlaceOf(p) /\ CourseOf(p) /\ (p \notin late => ReadOf(p)) /\ TypeOK /\ at[p] = "get"
        /\ UNCHANGED <<files, server, runs, history>>
        /\ c \in Command \cup {AnyCommand} /\ made[p] \subseteq Projects
        /\ t \in Target /\ link \in [Dirs -> Projects \cup {"none", "bad"}]
    BY Facts DEF Get
  <1>2. c.kind = "connect" /\ Start(c) \in Dirs /\ c.dir \in Dirs \cup {"none"} /\ (p \notin late)' = (p \notin late)
    BY <1>1, CommandFields DEF PlaceOf, Using, history
  <1>3. CASE Exists(t.project) /\ Go(p, IF t.dir = "none" THEN "place" ELSE "prepare", g)
    <2>1. g \in Target /\ g.created = t.created /\ g.dir = t.dir /\ g.project = t.project
      BY <1>1 DEF Target, Ready
    <2>2. /\ at'[p] = IF t.dir = "none" THEN "place" ELSE "prepare"
          /\ target'[p] = g /\ cmd'[p] = c /\ made' = made /\ status' = status /\ link' = link
      BY <1>1, <1>3, <2>1, GoEffect DEF Place, files, server
    <2>3. t.dir \in Dirs \cup {"none"}
      BY <1>1 DEF Target
    <2>4. PlaceOf(p)'
      BY <1>1, <1>2, <1>3, <2>1, <2>2, <2>3, LinkingAssumption DEF PlaceOf, Using, Placed, Exists, Start
    <2>5. CourseOf(p)'
      BY <1>1, <2>1, <2>2 DEF CourseOf, Placed, Usable, Finds
    <2>6. p \notin late' => ReadOf(p)'
      BY <1>1, <1>2, <2>1, <2>2 DEF ReadOf, PlaceOf, Placed, Taken
    <2> QED
      BY <1>1, <1>3, <2>1, <2>4, <2>5, <2>6, GoQuiet DEF Place
  <1>4. CASE Replaceable(p) /\ Go(p, "create", t)
    <2>1. at'[p] = "create" /\ target'[p] = t /\ cmd'[p] = c /\ made' = made /\ status' = status /\ link' = link
      BY <1>1, <1>4, GoEffect DEF Place, files, server
    <2>2. PlaceOf(p)'
      BY <1>1, <1>2, <1>4, <2>1 DEF PlaceOf, Using, Placed, Replaceable
    <2>3. CourseOf(p)'
      BY <1>1, <1>4, <2>1 DEF CourseOf, Placed, Usable, Exists, Replaceable
    <2>4. p \notin late' => ReadOf(p)'
      BY <1>1, <1>2, <1>4, <2>1 DEF ReadOf, Placed, Taken, Replaceable, Exists
    <2> QED
      BY <1>1, <1>4, <2>2, <2>3, <2>4, GoQuiet DEF Place
  <1>5. CASE Stops(p, AnyCommand)
    BY <1>1, <1>5, StopsQuiet DEF history, TypeOK, AnyCommand
  <1>6. CASE Stops(p, c)
    <2>1. \A q \in made[p] : Usable(q) => Finds(c, q)
      BY <1>1 DEF PlaceOf, CourseOf
    <2> QED
      BY <1>1, <1>2, <1>6, <2>1, StopsQuiet DEF history, TypeOK
  <1> QED
    BY <1>3, <1>4, <1>5, <1>6 DEF Get

LEMMA PlaceProjectSafe ==
  ASSUME LinkingInv, NEW p \in People, PlaceProject(p)
  PROVE  LinkingInv'
  <1> DEFINE c == cmd[p]
             t == target[p]
             d == NameDir[t.project]
  <1>1. /\ PlaceOf(p) /\ CourseOf(p) /\ (p \notin late => ReadOf(p)) /\ TypeOK /\ at[p] = "place"
        /\ UNCHANGED <<files, server, runs, history>>
        /\ c \in Command \cup {AnyCommand} /\ made[p] \subseteq Projects
        /\ t \in Target /\ link \in [Dirs -> Projects \cup {"none", "bad"}]
    BY Facts DEF PlaceProject
  <1>2. /\ t.project \in Projects /\ t.created = "no" /\ c.project = t.project /\ c.kind = "connect"
        /\ status[t.project] # "none" /\ d \in Dirs /\ d \in Below /\ Top \in Dirs
    BY <1>1, LinkingAssumption DEF PlaceOf, Using, Dirs
  <1>3. ASSUME NEW e \in Dirs, Go(p, "prepare", [t EXCEPT !.dir = e]), link[e] = t.project \/ link[e] \notin Projects
        PROVE  LinkingInv'
    <2> DEFINE g == [t EXCEPT !.dir = e]
    <2>1. g \in Target /\ g.created = "no" /\ g.dir = e /\ g.project = t.project
      BY <1>1, <1>2 DEF Target
    <2>2. at'[p] = "prepare" /\ target'[p] = g /\ cmd'[p] = c /\ made' = made /\ status' = status /\ link' = link
      BY <1>1, <1>3, <2>1, GoEffect DEF Place, files, server
    <2>3. PlaceOf(p)'
      BY <1>1, <1>2, <2>1, <2>2, LinkingAssumption DEF PlaceOf, Using, Placed
    <2>4. CourseOf(p)'
      BY <1>1, <1>2, <2>1, <2>2 DEF CourseOf, Placed, Usable, Finds
    <2>5. ReadOf(p)'
      BY <1>2, <1>3, <2>1, <2>2 DEF ReadOf, Placed, Taken
    <2> QED
      BY <1>1, <1>3, <2>1, <2>3, <2>4, <2>5, GoQuiet DEF Place
  <1>4. CASE link[Top] = t.project /\ Go(p, "prepare", [t EXCEPT !.dir = Top])
    BY <1>2, <1>3, <1>4
  <1>5. CASE Go(p, "prepare", [t EXCEPT !.dir = d]) /\ ~(link[d] \in Projects /\ link[d] # t.project)
    BY <1>2, <1>3, <1>5
  <1>6. CASE Stops(p, AnyCommand)
    BY <1>1, <1>6, StopsQuiet DEF history, TypeOK, AnyCommand
  <1>7. CASE Stops(p, Connect(d, t.project))
    <2>1. \A q \in made[p] : Usable(q) => Finds(Connect(d, t.project), q)
      BY <1>1, <1>2, ConnectTyped DEF CourseOf, Finds
    <2> QED
      BY <1>1, <1>2, <1>7, <2>1, ConnectTyped, StopsQuiet DEF history, TypeOK
  <1> QED
    BY <1>4, <1>5, <1>6, <1>7 DEF PlaceProject

LEMMA WaitSafe ==
  ASSUME LinkingInv, NEW p \in People, Wait(p)
  PROVE  LinkingInv'
  <1> DEFINE c == cmd[p]
             t == target[p]
  <1>1. /\ PlaceOf(p) /\ CourseOf(p) /\ (p \notin late => ReadOf(p)) /\ TypeOK /\ at[p] = "wait"
        /\ UNCHANGED <<files, server, runs, history>>
        /\ c \in Command \cup {AnyCommand} /\ made[p] \subseteq Projects
        /\ t \in Target /\ link \in [Dirs -> Projects \cup {"none", "bad"}]
    BY Facts DEF Wait
  <1>2. /\ t.dir \in Dirs /\ t.project \in Projects /\ c.kind = "connect" /\ t.created \in {"yes", "no"}
        /\ \A q \in made[p] : Usable(q) => q = t.project /\ (t.created = "no" => Finds(c, q))
    BY <1>1 DEF PlaceOf, CourseOf, Placed, Using, Target
  <1>3. CASE Go(p, "previous", t)
    <2>1. at'[p] = "previous" /\ target'[p] = t /\ cmd'[p] = c /\ made' = made /\ status' = status /\ link' = link
      BY <1>1, <1>3, GoEffect DEF Place, files, server
    <2>2. PlaceOf(p)' /\ CourseOf(p)'
      BY <1>1, <2>1 DEF PlaceOf, CourseOf, Using, Placed, Usable, Finds
    <2>3. p \notin late' => ReadOf(p)'
      BY <1>1, <2>1 DEF ReadOf, Placed, Taken, Exists, history
    <2> QED
      BY <1>1, <1>3, <2>2, <2>3, GoQuiet DEF Place
  <1>4. CASE Stops(p, c) /\ status[t.project] \in {"failed", "deleting"}
    <2>1. \A q \in made[p] : ~Usable(q)
      BY <1>2, <1>4 DEF Usable
    <2> QED
      BY <1>1, <1>2, <1>4, <2>1, StopsQuiet DEF history, TypeOK
  <1>5. CASE Stops(p, WaitHint(p))
    <2>1. WaitHint(p) \in Command \cup {AnyCommand} /\ WaitHint(p).kind = "connect"
      BY <1>1, <1>2, ConnectTyped DEF WaitHint, UnlinkedHint
    <2>2. \A q \in made[p] : Usable(q) => Finds(WaitHint(p), q)
      BY <1>2, ConnectTyped DEF WaitHint, UnlinkedHint, Finds
    <2> QED
      BY <1>1, <1>5, <2>1, <2>2, StopsQuiet DEF history, TypeOK
  <1> QED
    BY <1>3, <1>4, <1>5 DEF Wait

LEMMA ResolveSafe ==
  ASSUME LinkingInv, NEW p \in People, Resolve(p)
  PROVE  LinkingInv'
  <1>1. /\ PlaceOf(p) /\ CourseOf(p) /\ (p \notin late => ReadOf(p)) /\ TypeOK /\ at[p] = "resolve"
        /\ UNCHANGED <<files, server, runs, history>> /\ cmd[p] \in Command \cup {AnyCommand}
    BY Facts DEF Resolve
  <1>2. CASE Exists(cmd[p].project) /\ Go(p, "select", NoTarget)
    <2>1. /\ at'[p] = "select" /\ cmd'[p] = cmd[p] /\ seen'[p] = seen[p] /\ made' = made
          /\ status' = status /\ link' = link
      BY <1>1, <1>2, NoneTyped, GoEffect DEF Place, files, server
    <2>2. PlaceOf(p)' /\ CourseOf(p)'
      BY <1>1, <1>2, <2>1 DEF PlaceOf, CourseOf, Using, Placed, Exists
    <2>3. p \notin late' => ReadOf(p)'
      BY <1>1, <2>1 DEF ReadOf, Placed, history
    <2> QED
      BY <1>1, <1>2, <2>2, <2>3, NoneTyped, GoQuiet DEF Place
  <1>3. CASE Stops(p, AnyCommand)
    BY <1>1, <1>3, StopsQuiet DEF history, TypeOK, AnyCommand
  <1> QED
    BY <1>2, <1>3 DEF Resolve

LEMMA BeginSafe ==
  ASSUME LinkingInv, NEW p \in People, Begin(p)
  PROVE  LinkingInv'
  <1>1. /\ PlaceOf(p) /\ CourseOf(p) /\ TypeOK /\ at[p] = "idle" /\ UNCHANGED <<files, server, cut, raced>>
        /\ late' = late \ {p} /\ runs' \in 0..MaxRuns /\ late \subseteq People /\ made[p] \subseteq Projects
        /\ next[p] \in Command \cup {AnyCommand}
    BY Facts, LinkingAssumption DEF Begin, TypeOK
  <1>2. late' \subseteq People /\ p \notin late' /\ \A r \in People \ {p} : r \in late => r \in late'
    BY <1>1
  <1>3. PICK c \in IF next[p] = AnyCommand THEN Commands ELSE {next[p]} :
         LET f == FindLink(c.dir)
             goes == IF c.kind = "connect" THEN ~BadLink(c) /\ ~NameIgnored(c) ELSE f.project \in Projects
         IN \/ /\ goes
               /\ cmd' = Set(cmd, p, c)
               /\ at' = Set(at, p, IF c.kind = "connect" THEN "signIn" ELSE "resolve")
               /\ seen' = IF c.kind = "connect" THEN seen ELSE Set(seen, p, f)
               /\ UNCHANGED <<target, next, made>>
            \/ ~goes /\ Stops(p, IF c.kind = "connect" /\ NameIgnored(c) THEN Connect(c.dir, "none") ELSE AnyCommand)
    BY DEF Begin
  <1>4. /\ c \in Command /\ c # AnyCommand /\ ((next[p] = AnyCommand /\ made[p] = {}) \/ c = next[p])
        /\ c.kind = "use" => c.dir # "none" /\ c.project # "none" /\ made[p] = {}
        /\ Start(c) \in Dirs /\ c.dir \in Dirs \cup {"none"} /\ c.project \in Projects \cup {"none"}
        /\ c.named \in {"yes", "no"} /\ c.kind \in {"connect", "use"}
    <2>1. c \in Command \/ c = AnyCommand
      BY <1>1, <1>3, LinkingAssumption
    <2>2. c # AnyCommand
      BY <1>3, LinkingAssumption DEF Command, AnyCommand
    <2> QED
      BY <1>1, <1>3, <2>1, <2>2, CommandFields, LinkingAssumption DEF PlaceOf
  <1>5. \A q \in made[p] : Usable(q) => Finds(c, q) \/ BadLink(c)
    BY <1>1, <1>4 DEF CourseOf, Placed
  <1> DEFINE f == FindLink(c.dir)
  <1>6. CASE /\ c.kind = "connect" /\ ~BadLink(c) /\ ~NameIgnored(c)
             /\ cmd' = Set(cmd, p, c) /\ at' = Set(at, p, "signIn") /\ UNCHANGED <<seen, target, next, made>>
    <2>1. /\ JobType' /\ MadeType' /\ OthersSame(p)
          /\ at'[p] = "signIn" /\ cmd'[p] = c /\ target'[p] = NoTarget
      BY <1>1, <1>4, <1>6, Jobs DEF Set, JobType, MadeType, OthersSame, Same, PlaceOf, Place
    <2>2. PlaceOf(p)' /\ ReadOf(p)'
      BY <1>4, <1>6, <2>1 DEF PlaceOf, ReadOf, Using, Placed
    <2>3. \A q \in made[p] : Usable(q) => Finds(c, q) /\ c.named = "no"
      BY <1>1, <1>4, <1>5, <1>6, LinkingAssumption DEF Finds, NameIgnored, Command
    <2>4. CourseOf(p)'
      BY <1>1, <1>6, <2>1, <2>3 DEF CourseOf, Usable, Finds, files, server
    <2> QED
      BY <1>1, <1>2, <1>6, <2>1, <2>2, <2>4, QuietSafe
  <1>7. CASE /\ c.kind = "use" /\ f.project \in Projects
             /\ cmd' = Set(cmd, p, c) /\ at' = Set(at, p, "resolve") /\ seen' = Set(seen, p, f)
             /\ UNCHANGED <<target, next, made>>
    <2>1. f \in Seen /\ f.dir \in Dirs /\ link[f.dir] = f.project
      BY <1>1, <1>4, <1>7, LinkingAssumption DEF FindLink, NoLink, Seen, TypeOK, Dirs
    <2>2. /\ JobType' /\ MadeType' /\ OthersSame(p)
          /\ at'[p] = "resolve" /\ cmd'[p] = c /\ seen'[p] = f
      BY <1>1, <1>4, <1>7, <2>1, Jobs DEF Set, JobType, MadeType, OthersSame, Same, Place
    <2>3. PlaceOf(p)' /\ CourseOf(p)' /\ ReadOf(p)'
      BY <1>1, <1>4, <1>7, <2>1, <2>2 DEF PlaceOf, CourseOf, ReadOf, Using, Placed, files
    <2> QED
      BY <1>1, <1>2, <1>7, <2>2, <2>3, QuietSafe
  <1>8. CASE c.kind = "connect" /\ NameIgnored(c) /\ Stops(p, Connect(c.dir, "none"))
    <2>1. \A q \in made[p] : Usable(q) => Finds(Connect(c.dir, "none"), q)
      BY <1>4, <1>5, <1>8, ConnectTyped, LinkingAssumption DEF Finds, BadLink, NameIgnored, Asked, Command, Start
    <2> QED
      BY <1>1, <1>2, <1>4, <1>8, <2>1, ConnectTyped, StopsQuiet
  <1>9. CASE Stops(p, AnyCommand)
    BY <1>1, <1>2, <1>9, StopsQuiet DEF AnyCommand
  <1> QED
    BY <1>3, <1>4, <1>6, <1>7, <1>8, <1>9

LEMMA CreateSafe ==
  ASSUME LinkingInv, NEW p \in People, Create(p)
  PROVE  LinkingInv'
  <1> DEFINE c == cmd[p]
             t == target[p]
  <1>1. /\ PlaceOf(p) /\ CourseOf(p) /\ (p \notin late => ReadOf(p)) /\ TypeOK /\ at[p] = "create"
        /\ UNCHANGED <<files, events, runs, history>>
        /\ c \in Command \cup {AnyCommand} /\ made[p] \subseteq Projects
        /\ t \in Target /\ link \in [Dirs -> Projects \cup {"none", "bad"}]
    BY Facts DEF Create
  <1>2. /\ c # AnyCommand /\ c.kind = "connect" /\ c.project = "none" /\ t.dir \in {"none", Start(c)} /\ Start(c) \in Dirs
        /\ \A q \in made[p] : status[q] # "none" /\ ~Usable(q)
    BY <1>1, CommandFields DEF PlaceOf, CourseOf, Using, Placed, LinkingInv, LinkInv
  <1>3. CASE Stops(p, c) /\ UNCHANGED status
    BY <1>1, <1>2, <1>3, StopsQuiet DEF history, server, TypeOK
  <1>4. ASSUME NEW q \in Projects, NEW s \in {"provisioning", "active"},
               status[q] = "none", status' = Set(status, q, s)
        PROVE  /\ StatusMoves /\ status' \in [Projects -> {"none", "provisioning", "active", "failed", "deleting", "gone"}]
               /\ status'[q] = s /\ \A r \in Projects \ {q} : status'[r] = status[r]
    BY <1>1, <1>4 DEF TypeOK, Set, StatusMoves, Exists, Usable
  <1>5. ASSUME NEW q \in Projects, NEW s \in {"provisioning", "active"},
               status[q] = "none", status' = Set(status, q, s), Stops(p, c)
        PROVE  LinkingInv'
    <2>1. /\ JobType' /\ MadeType' /\ OthersSame(p) /\ \A r \in People \ {p} : made'[r] = made[r]
          /\ made'[p] = (IF c = AnyCommand THEN {} ELSE made[p])
          /\ at'[p] = "idle" /\ target'[p] = NoTarget /\ cmd'[p] = AnyCommand /\ seen'[p] = NoLink /\ next'[p] = c
      BY <1>1, <1>5, StopsEffect
    <2>2. TypeOK'
      BY <1>1, <1>4, <1>5, <2>1 DEF TypeOK, JobType, MadeType, files, history
    <2>3. \A r \in made'[p] : status'[r] # "none" /\ ~Usable(r)'
      BY <1>1, <1>2, <1>4, <1>5, <2>1 DEF Usable
    <2>4. PlaceOf(p)' /\ CourseOf(p)' /\ ReadOf(p)'
      BY <1>2, <2>1, <2>3, IdleSafe
    <2> QED
      BY <1>1, <1>4, <1>5, <2>1, <2>2, <2>3, <2>4, LinksKept DEF files, history
  <1>6. ASSUME NEW q \in Projects, NEW s \in {"provisioning", "active"}, NEW d \in Dirs, NEW y \in {"yes", "no"},
               status[q] = "none", status' = Set(status, q, s),
               d = IF t.dir = "none" THEN NameDir[q] ELSE t.dir,
               t.dir = "none" => contents[d] = "missing",
               Moves(p, "prepare", [dir |-> d, project |-> q, created |-> "yes", ready |-> y]),
               made' = Set(made, p, made[p] \cup {q})
        PROVE  LinkingInv'
    <2> DEFINE g == [dir |-> d, project |-> q, created |-> "yes", ready |-> y]
    <2>1. g \in Target /\ g.dir = d /\ g.project = q /\ g.created = "yes"
      BY DEF Target
    <2>2. /\ JobType' /\ OthersSame(p) /\ at'[p] = "prepare" /\ target'[p] = g /\ cmd'[p] = c
      BY <1>1, <1>6, <2>1, Jobs, MovesEffect DEF Place
    <2>3. /\ MadeType' /\ \A r \in People \ {p} : made'[r] = made[r]
          /\ made'[p] = made[p] \cup {q}
      BY <1>1, <1>6 DEF TypeOK, MadeType, Set
    <2>4. TypeOK'
      BY <1>1, <1>4, <1>6, <2>2, <2>3 DEF TypeOK, JobType, MadeType, files, history
    <2>5. \A r \in made'[p] : status'[r] # "none" /\ (Usable(r)' => r = q)
      <3>1. status'[q] # "none" /\ \A r \in made[p] : r \in Projects \ {q}
        BY <1>1, <1>2, <1>4, <1>6
      <3>2. \A r \in Projects \ {q} : status'[r] = status[r]
        BY <1>4, <1>6
      <3> QED
        BY <1>2, <2>3, <3>1, <3>2 DEF Usable
    <2>6. d \in Below \cup {Start(c)}
      BY <1>2, <1>6, LinkingAssumption
    <2>7. PlaceOf(p)'
      BY <1>2, <1>4, <1>6, <2>1, <2>2, <2>6 DEF PlaceOf, Using, Placed, Start
    <2>8. CourseOf(p)'
      BY <2>1, <2>2, <2>5 DEF CourseOf, Placed
    <2>9. p \notin late => ReadOf(p)'
      <3>1. link[d] \in Projects => link[d] # q /\ contents[d] = "files"
        BY <1>6, LinkingAssumption DEF LinkingInv, LinkInv
      <3>2. p \notin late => ~Taken(d)
        BY <1>1, <1>6, <3>1 DEF ReadOf, Taken
      <3>3. p \notin late => ~Taken(d)'
        BY <1>1, <1>4, <1>6, <3>1, <3>2 DEF Taken, Exists, files
      <3> QED
        BY <2>1, <2>2, <3>3 DEF ReadOf, Placed, Taken
    <2>10. \A r \in made'[p] : Usable(r)' => r = target'[p].project
      BY <2>1, <2>2, <2>5
    <2> QED
      BY <1>1, <1>4, <1>6, <2>2, <2>3, <2>4, <2>5, <2>7, <2>8, <2>9, <2>10, LinksKept DEF files, history
  <1>7. ASSUME NEW q \in Projects
        PROVE  (IF t.dir = "none" THEN NameDir[q] ELSE t.dir) \in Dirs
    BY <1>2, LinkingAssumption DEF Dirs
  <1> QED
    BY <1>3, <1>5, <1>6, <1>7 DEF Create

LEMMA PrepareSafe ==
  ASSUME LinkingInv, NEW p \in People, Prepare(p)
  PROVE  LinkingInv'
  <1> DEFINE c == cmd[p]
             t == target[p]
             u == UnlinkedHint(p)
  <1>1. /\ PlaceOf(p) /\ CourseOf(p) /\ (p \notin late => ReadOf(p)) /\ TypeOK /\ at[p] = "prepare"
        /\ UNCHANGED <<link, env, server, runs, history>>
        /\ c \in Command \cup {AnyCommand} /\ made[p] \subseteq Projects
        /\ t \in Target /\ link \in [Dirs -> Projects \cup {"none", "bad"}]
    BY Facts DEF Prepare
  <1>2. /\ t.dir \in Dirs /\ t.project \in Projects /\ c.kind = "connect" /\ t.created \in {"yes", "no"}
        /\ \A q \in made[p] : status[q] # "none" /\ (Usable(q) => q = t.project /\ (t.created = "no" => Finds(c, q)))
    BY <1>1 DEF PlaceOf, CourseOf, Placed, Using, Target, LinkingInv, LinkInv
  <1>3. /\ contents' \in [Dirs -> {"missing", "empty", "files"}]
        /\ \A d \in Dirs : contents[d] = "files" => contents'[d] = "files"
        /\ StatusMoves /\ late' = late /\ status' = status /\ UNCHANGED <<link, env, cut, raced>>
    BY <1>1 DEF Prepare, TypeOK, Set, StatusMoves, Exists, Usable, server, history
  <1>4. /\ u \in Command \cup {AnyCommand} /\ u.kind = "connect"
        /\ \A q \in made[p] : Usable(q) => Finds(u, q)
    BY <1>1, <1>2, ConnectTyped DEF UnlinkedHint, Finds
  <1>5. ASSUME NEW n \in {u, c}, Halts(p, n), MadeType', \A r \in People \ {p} : made'[r] = made[r],
               made'[p] \in {made[p], {}}, n = AnyCommand => made'[p] = {}, n = u \/ made'[p] = {}
        PROVE  LinkingInv'
    <2>1. /\ JobType' /\ OthersSame(p) /\ at'[p] = "idle" /\ target'[p] = NoTarget /\ cmd'[p] = AnyCommand
          /\ next'[p] = n
      BY <1>1, <1>4, <1>5, Jobs, HaltsEffect
    <2>2. TypeOK'
      BY <1>1, <1>3, <1>5, <2>1 DEF TypeOK, JobType, MadeType, server, history
    <2>3. PlaceOf(p)' /\ CourseOf(p)' /\ ReadOf(p)'
      BY <1>2, <1>3, <1>4, <1>5, <2>1, IdleSafe DEF Usable, Finds
    <2> QED
      BY <1>1, <1>2, <1>3, <1>5, <2>1, <2>2, <2>3, LinksKept
  <1>6. CASE Stops(p, u)
    BY <1>1, <1>4, <1>5, <1>6, StopsEffect DEF Stops
  <1>7. CASE Halts(p, c) /\ made' = Set(made, p, {})
    <2>1. MadeType' /\ made'[p] = {} /\ \A r \in People \ {p} : made'[r] = made[r]
      BY <1>1, <1>7 DEF MadeType, TypeOK, Set
    <2> QED
      BY <1>5, <1>7, <2>1
  <1>8. CASE Go(p, IF t.ready = "yes" THEN "previous" ELSE "wait", t)
    <2>1. /\ JobType' /\ MadeType' /\ OthersSame(p) /\ made' = made
          /\ at'[p] \in {"previous", "wait"} /\ target'[p] = t /\ cmd'[p] = c
      BY <1>1, <1>8, GoEffect DEF Place
    <2>2. TypeOK'
      BY <1>1, <1>3, <2>1 DEF TypeOK, JobType, MadeType, server, history
    <2>3. PlaceOf(p)' /\ CourseOf(p)' /\ (p \notin late => ReadOf(p)')
      BY <1>1, <1>3, <2>1 DEF PlaceOf, CourseOf, ReadOf, Using, Placed, Usable, Finds, Taken, Exists
    <2> QED
      BY <1>1, <1>2, <1>3, <2>1, <2>2, <2>3, LinksKept
  <1> QED
    BY <1>6, <1>7, <1>8 DEF Prepare

LEMMA HintTyped ==
  ASSUME LinkingInv, NEW p \in People, at[p] \in Placed
  PROVE  /\ UnlinkedHint(p) \in Command \cup {AnyCommand} /\ UnlinkedHint(p).kind = "connect"
         /\ LinkedHint(p) \in Command \cup {AnyCommand} /\ LinkedHint(p).kind = "connect"
         /\ target[p].dir \in Dirs /\ target[p].project \in Projects /\ cmd[p].kind = "connect"
         /\ status[target[p].project] # "none" /\ target[p].created \in {"yes", "no"}
  BY Facts, ConnectTyped DEF PlaceOf, Placed, Using, UnlinkedHint, LinkedHint, Target

\* A message that gives the project leads to it, whatever the links are.
LEMMA HintFinds ==
  ASSUME LinkingInv, NEW p \in People, at[p] \in Placed, NEW q \in made[p], Usable(q)
  PROVE  /\ q = target[p].project /\ Finds(UnlinkedHint(p), q)
         /\ UnlinkedHint(p).project = q \/ (UnlinkedHint(p).project = "none" /\ UnlinkedHint(p).named = "no")
  <1>1. /\ PlaceOf(p) /\ CourseOf(p) /\ target[p].created \in {"yes", "no"}
        /\ target[p].dir \in Dirs /\ target[p].project \in Projects
    BY Facts, HintTyped
  <1>2. q = target[p].project /\ (target[p].created = "no" => cmd[p].named = "no" /\ Finds(cmd[p], q))
    BY <1>1 DEF CourseOf, Placed
  <1>3. CASE target[p].created = "yes"
    BY <1>1, <1>2, <1>3, ConnectTyped DEF UnlinkedHint, Finds
  <1>4. CASE target[p].created = "no"
    BY <1>2, <1>4 DEF UnlinkedHint, Finds
  <1> QED
    BY <1>1, <1>2, <1>3, <1>4

LEMMA PreviousSafe ==
  ASSUME LinkingInv, NEW p \in People, Previous(p)
  PROVE  LinkingInv'
  <1> DEFINE c == cmd[p]
             t == target[p]
             u == UnlinkedHint(p)
             s == UsableLink(t.dir)
  <1>1. /\ PlaceOf(p) /\ CourseOf(p) /\ (p \notin late => ReadOf(p)) /\ TypeOK /\ at[p] = "previous"
        /\ UNCHANGED <<link, env, server, runs, history>>
        /\ link \in [Dirs -> Projects \cup {"none", "bad"}]
    BY Facts DEF Previous
  <1>2. t.dir \in Dirs /\ u \in Command \cup {AnyCommand} /\ u.kind = "connect" /\ Top \in Dirs
    BY <1>1, HintTyped DEF Placed, Dirs
  <1>3. /\ contents' \in [Dirs -> {"missing", "empty", "files"}]
        /\ \A d \in Dirs : contents[d] = "files" => contents'[d] = "files"
        /\ StatusMoves /\ late' = late /\ status' = status /\ UNCHANGED <<link, env, cut, raced>>
        /\ \A q \in made[p] : status[q] # "none"
    BY <1>1, <1>2 DEF Previous, TypeOK, Set, StatusMoves, Exists, Usable, server, history, LinkingInv, LinkInv
  <1>4. CASE at' = Set(at, p, "link") /\ seen' = Set(seen, p, s) /\ UNCHANGED <<cmd, target, next, made>>
    <2>1. s \in Seen
      BY <1>1, <1>2, NoneTyped, LinkingAssumption DEF UsableLink, FindLink, Linked, Seen
    <2>2. link[t.dir] \in Projects => s = [dir |-> t.dir, project |-> link[t.dir]]
      BY <1>1, <1>2, LinkingAssumption DEF UsableLink, FindLink, Linked
    <2>3. JobType' /\ OthersSame(p) /\ at'[p] = "link" /\ seen'[p] = s
      BY <1>1, <1>4, <2>1, Jobs DEF JobType, OthersSame, Same, Set, Place
    <2>4. TypeOK'
      BY <1>1, <1>3, <1>4, <2>3 DEF TypeOK, JobType, server, history
    <2>5. PlaceOf(p)' /\ CourseOf(p)' /\ (p \notin late => ReadOf(p)')
      BY <1>1, <1>3, <1>4, <2>2, <2>3
         DEF PlaceOf, CourseOf, ReadOf, Using, Placed, Usable, Finds, Taken, Exists
    <2> QED
      BY <1>1, <1>3, <1>4, <2>3, <2>4, <2>5, LinksKept
  <1>5. CASE Stops(p, u)
    <2>1. /\ JobType' /\ MadeType' /\ OthersSame(p) /\ \A r \in People \ {p} : made'[r] = made[r]
          /\ made'[p] = (IF u = AnyCommand THEN {} ELSE made[p])
          /\ at'[p] = "idle" /\ target'[p] = NoTarget /\ cmd'[p] = AnyCommand /\ next'[p] = u
      BY <1>1, <1>2, <1>5, StopsEffect
    <2>2. TypeOK'
      BY <1>1, <1>3, <2>1 DEF TypeOK, JobType, MadeType, server, history
    <2>3. \A q \in made[p] : Usable(q) => Finds(u, q)
      BY <1>1, HintFinds DEF Placed
    <2>4. PlaceOf(p)' /\ CourseOf(p)' /\ ReadOf(p)'
      BY <1>2, <1>3, <2>1, <2>3, IdleSafe DEF Usable, Finds
    <2> QED
      BY <1>1, <1>3, <2>1, <2>2, <2>4, LinksKept
  <1> QED
    BY <1>4, <1>5 DEF Previous

LEMMA RelinksTyped ==
  ASSUME TypeOK, NEW p \in People, NEW d \in Dirs, NEW mine \in SUBSET Projects, Relinks(p, d, mine)
  PROVE  late' \subseteq People /\ MadeType' /\ made'[p] = mine /\ (p \in late' <=> p \in late)
  BY DEF TypeOK, Relinks, MadeType

LEMMA LinkSafe ==
  ASSUME LinkingInv, NEW p \in People, Link(p)
  PROVE  LinkingInv'
  <1> DEFINE c == cmd[p]
             t == target[p]
             u == UnlinkedHint(p)
  <1>1. /\ PlaceOf(p) /\ CourseOf(p) /\ (p \notin late => ReadOf(p)) /\ TypeOK /\ at[p] = "link"
        /\ UNCHANGED <<env, server, runs, cut>> /\ Relinks(p, t.dir, made[p])
        /\ link \in [Dirs -> Projects \cup {"none", "bad"}] /\ made[p] \subseteq Projects
        /\ c \in Command \cup {AnyCommand} /\ t \in Target
    BY Facts DEF Link
  <1>2. /\ t.dir \in Dirs /\ t.project \in Projects /\ c.kind = "connect" /\ status[t.project] # "none"
        /\ u \in Command \cup {AnyCommand} /\ u.kind = "connect"
    BY <1>1, HintTyped DEF Placed
  <1>3. late' \subseteq People /\ MadeType' /\ made'[p] = made[p] /\ (p \in late' <=> p \in late)
    BY <1>1, <1>2, RelinksTyped
  <1>4. CASE WriteLink(p, t.dir, t.project) /\ Moves(p, "setUp", t)
    <2>1. /\ JobType' /\ OthersSame(p) /\ at'[p] = "setUp" /\ target'[p] = t /\ cmd'[p] = c
      BY <1>1, <1>4, Jobs, MovesEffect DEF Place
    <2>2. /\ contents' \in [Dirs -> {"missing", "empty", "files"}] /\ contents'[t.dir] = "files"
          /\ \A d \in Dirs : contents[d] = "files" => contents'[d] = "files"
          /\ link' = Set(link, t.dir, t.project) /\ link' \in [Dirs -> Projects \cup {"none", "bad"}]
          /\ link'[t.dir] = t.project /\ \A d \in Dirs \ {t.dir} : link'[d] = link[d]
          /\ raced \subseteq raced' /\ raced' \subseteq Dirs /\ status' = status
      BY <1>1, <1>2, <1>4 DEF WriteLink, TypeOK, Set, server
    <2>3. TypeOK'
      BY <1>1, <1>3, <2>1, <2>2 DEF TypeOK, JobType, MadeType, server
    <2>5. PlaceOf(p)'
      BY <1>1, <1>2, <2>1, <2>2 DEF PlaceOf, Using, Placed
    <2>6. CourseOf(p)'
      <3>1. Start(c) \in Dirs
        BY <1>1, CommandFields
      <3> QED
        BY <1>1, <1>3, <2>1, <2>2, <3>1 DEF CourseOf, Placed, Usable, Finds
    <2>7. ReadOf(p)'
      BY <2>1, <2>2 DEF ReadOf, Placed
    <2> QED
      BY <1>1, <1>2, <2>1, <2>2, <2>3, <2>5, <2>6, <2>7, RelinkSafe
  <1>5. CASE link' \in Half(t.dir) /\ Halts(p, u) /\ UNCHANGED <<contents, raced>>
    <2>1. PICK l \in {link[t.dir], "bad"} : link' = Set(link, t.dir, l)
      BY <1>1, <1>2, <1>5 DEF Half, Set
    <2>2. /\ JobType' /\ OthersSame(p) /\ at'[p] = "idle" /\ target'[p] = NoTarget /\ cmd'[p] = AnyCommand
          /\ next'[p] = u
      BY <1>1, <1>2, <1>5, Jobs, HaltsEffect
    <2>3. /\ l \in Projects \cup {"none", "bad"} /\ link' \in [Dirs -> Projects \cup {"none", "bad"}]
          /\ link'[t.dir] = l /\ \A d \in Dirs \ {t.dir} : link'[d] = link[d]
          /\ l \in Projects => l = link[t.dir]
      BY <1>1, <1>2, <2>1, LinkingAssumption DEF Set
    <2>4. TypeOK'
      BY <1>1, <1>3, <1>5, <2>2, <2>3 DEF TypeOK, JobType, MadeType, server
    <2>6. u = AnyCommand => made'[p] = {}
      BY <1>1, <1>2, ConnectTyped DEF UnlinkedHint, PlaceOf
    <2>7. \A q \in made'[p] : Usable(q)' => (Finds(next[p], q) \/ BadLink(next[p]))'
      <3>1. Start(u) \in Dirs
        BY <1>2, CommandFields
      <3>2. \A q \in made[p] : Usable(q) => /\ Finds(u, q)
                                            /\ u.project = q \/ (u.project = "none" /\ u.named = "no")
        BY <1>1, HintFinds DEF Placed
      <3> QED
        BY <1>1, <1>3, <2>2, <2>3, <3>1, <3>2 DEF Usable, Finds, BadLink, Asked, server
    <2>8. PlaceOf(p)' /\ CourseOf(p)' /\ ReadOf(p)'
      BY <1>2, <2>2, <2>6, <2>7, IdleSafe
    <2> QED
      BY <1>1, <1>2, <1>5, <2>1, <2>2, <2>3, <2>4, <2>8, RelinkSafe DEF LinkingInv, LinkInv, server
  <1> QED
    BY <1>4, <1>5 DEF Link

\* A step that writes to one directory's cloud.env, or fails to.
LEMMA EnvTyped ==
  ASSUME TypeOK, NEW p \in People, NEW d \in Dirs, NEW project \in Projects,
         EnvWritten(p, d, project) \/ EnvFails(d)
  PROVE  /\ env' \in [Dirs -> Projects \cup {"none"}] /\ cut' \subseteq Dirs /\ raced' \subseteq Dirs
  BY DEF TypeOK, EnvWritten, EnvFails, Set

LEMMA SetUpSafe ==
  ASSUME LinkingInv, NEW p \in People, SetUp(p)
  PROVE  LinkingInv'
  <1> DEFINE c == cmd[p]
             t == target[p]
             u == LinkedHint(p)
  <1>1. /\ PlaceOf(p) /\ CourseOf(p) /\ (p \notin late => ReadOf(p)) /\ TypeOK /\ at[p] = "setUp"
        /\ UNCHANGED <<contents, link, server, runs, late>>
        /\ c \in Command \cup {AnyCommand} /\ t \in Target /\ c # AnyCommand
    BY Facts DEF SetUp, PlaceOf
  <1>2. /\ t.dir \in Dirs /\ t.project \in Projects /\ c.kind = "connect" /\ DirOf(p) = t.dir
        /\ u \in Command \cup {AnyCommand} /\ u.kind = "connect" /\ t.created \in {"yes", "no"}
        /\ p \notin late => link[t.dir] = t.project
    BY <1>1, HintTyped DEF Placed, DirOf, ReadOf
  <1>3. StatusMoves /\ status' = status /\ \A q \in made[p] : status[q] # "none"
    BY <1>1 DEF server, StatusMoves, Exists, Usable, LinkingInv, LinkInv
  <1>4. \A q \in made[p] : Usable(q) => Finds(u, q)
    <2>1. ASSUME NEW q \in made[p], Usable(q)
          PROVE  link[t.dir] = q /\ (t.created = "no" => Finds(c, q)) /\ (t.created = "yes" => c.project = "none")
      BY <1>1, <2>1 DEF CourseOf, PlaceOf, Placed
    <2>2. t.created = "yes" => t.dir \in Below \cup {Start(c)} /\ c.project = "none"
      BY <1>1 DEF PlaceOf, Placed
    <2>3. CASE t.created = "yes" /\ t.dir # Top
      BY <1>2, <2>1, <2>3, ConnectTyped, LinkingAssumption DEF LinkedHint, Finds, Start
    <2>4. CASE t.created = "yes" /\ t.dir = Top
      BY <2>1, <2>2, <2>4, LinkingAssumption DEF LinkedHint, Finds
    <2>5. CASE t.created = "no"
      BY <2>1, <2>5 DEF LinkedHint
    <2> QED
      BY <1>2, <2>3, <2>4, <2>5
  <1>5. ASSUME NEW n \in {u, AnyCommand}, Stops(p, n), EnvWritten(p, t.dir, t.project) \/ EnvFails(t.dir)
        PROVE  LinkingInv'
    <2>1. /\ JobType' /\ MadeType' /\ OthersSame(p) /\ \A r \in People \ {p} : made'[r] = made[r]
          /\ made'[p] = (IF n = AnyCommand THEN {} ELSE made[p])
          /\ at'[p] = "idle" /\ target'[p] = NoTarget /\ cmd'[p] = AnyCommand /\ next'[p] = n
      BY <1>1, <1>2, <1>5, StopsEffect
    <2>2. env' \in [Dirs -> Projects \cup {"none"}] /\ cut' \subseteq Dirs /\ raced' \subseteq Dirs
      BY <1>1, <1>2, <1>5, EnvTyped
    <2>3. TypeOK'
      BY <1>1, <2>1, <2>2 DEF TypeOK, JobType, MadeType, server
    <2>4. n.kind = "connect"
      BY <1>2 DEF AnyCommand
    <2>5. PlaceOf(p)' /\ CourseOf(p)' /\ ReadOf(p)'
      BY <1>1, <1>3, <1>4, <1>5, <2>1, <2>4, IdleSafe DEF Usable, Finds
    <2> QED
      BY <1>1, <1>3, <2>1, <2>2, <2>3, <2>5, LinksKept
  <1> QED
    BY <1>5 DEF SetUp

LEMMA RefreshSafe ==
  ASSUME LinkingInv, NEW p \in People, Refresh(p)
  PROVE  LinkingInv'
  <1> DEFINE c == cmd[p]
             d == seen[p].dir
  <1>1. /\ PlaceOf(p) /\ (p \notin late => ReadOf(p)) /\ TypeOK /\ at[p] = "refresh"
        /\ UNCHANGED <<contents, link, server, runs, late>>
    BY Facts DEF Refresh
  <1>2. /\ d \in Dirs /\ c.project \in Projects /\ c.kind = "use" /\ DirOf(p) = d /\ made[p] = {}
        /\ p \notin late => link[d] = c.project
        /\ Connect(d, "none") \in Command /\ Connect(d, "none").kind = "connect"
        /\ StatusMoves /\ status' = status
    BY <1>1, ConnectTyped DEF PlaceOf, ReadOf, Using, DirOf, server, StatusMoves, Exists, Usable
  <1>3. ASSUME NEW n \in {Connect(d, "none"), AnyCommand}, Stops(p, n),
               \/ EnvWritten(p, d, c.project) \/ EnvFails(d)
               \/ env[d] = "none" /\ UNCHANGED <<env, cut, raced>>
        PROVE  LinkingInv'
    <2>1. /\ JobType' /\ MadeType' /\ OthersSame(p) /\ \A r \in People \ {p} : made'[r] = made[r]
          /\ made'[p] = {} /\ at'[p] = "idle" /\ target'[p] = NoTarget /\ cmd'[p] = AnyCommand /\ next'[p] = n
      BY <1>1, <1>2, <1>3, StopsEffect
    <2>2. env' \in [Dirs -> Projects \cup {"none"}] /\ cut' \subseteq Dirs /\ raced' \subseteq Dirs
      BY <1>1, <1>2, <1>3, EnvTyped DEF TypeOK
    <2>3. TypeOK'
      BY <1>1, <2>1, <2>2 DEF TypeOK, JobType, MadeType, server
    <2>4. n.kind = "connect"
      BY <1>2 DEF AnyCommand
    <2>5. PlaceOf(p)' /\ CourseOf(p)' /\ ReadOf(p)'
      BY <2>1, <2>4, IdleSafe
    <2> QED
      BY <1>1, <1>2, <2>1, <2>2, <2>3, <2>5, LinksKept
  <1> QED
    BY <1>3 DEF Refresh, RefreshHint

LEMMA SelectSafe ==
  ASSUME LinkingInv, NEW p \in People, Select(p)
  PROVE  LinkingInv'
  <1> DEFINE c == cmd[p]
             d == seen[p].dir
  <1>1. /\ PlaceOf(p) /\ (p \notin late => ReadOf(p)) /\ TypeOK /\ at[p] = "select"
        /\ UNCHANGED <<env, server, runs, cut>> /\ Relinks(p, d, {})
        /\ link \in [Dirs -> Projects \cup {"none", "bad"}]
    BY Facts DEF Select
  <1>2. /\ d \in Dirs /\ c.project \in Projects /\ c.kind = "use" /\ DirOf(p) = d /\ made[p] = {}
        /\ status[c.project] # "none" /\ c # AnyCommand
        /\ p \notin late => link[d] = seen[p].project
    BY <1>1 DEF PlaceOf, ReadOf, Using, DirOf
  <1>3. late' \subseteq People /\ MadeType' /\ made'[p] = {} /\ (p \in late' <=> p \in late)
    BY <1>1, <1>2, RelinksTyped
  <1>4. AnyCommand.kind = "connect"
    BY DEF AnyCommand
  <1>5. ASSUME WriteLink(p, d, c.project)
        PROVE  /\ contents' \in [Dirs -> {"missing", "empty", "files"}] /\ contents'[d] = "files"
               /\ \A e \in Dirs : contents[e] = "files" => contents'[e] = "files"
               /\ link' = Set(link, d, c.project) /\ link' \in [Dirs -> Projects \cup {"none", "bad"}]
               /\ link'[d] = c.project /\ \A e \in Dirs \ {d} : link'[e] = link[e]
               /\ raced \subseteq raced' /\ raced' \subseteq Dirs /\ (p \in late => d \in raced') /\ status' = status
    BY <1>1, <1>2, <1>5 DEF WriteLink, TypeOK, Set, server
  <1>6. CASE WriteLink(p, d, c.project) /\ SameProject(p) /\ Halts(p, AnyCommand)
    <2>1. /\ JobType' /\ OthersSame(p) /\ at'[p] = "idle" /\ target'[p] = NoTarget /\ cmd'[p] = AnyCommand
          /\ next'[p] = AnyCommand
      BY <1>1, <1>6, Jobs, HaltsEffect
    <2>2. TypeOK'
      BY <1>1, <1>3, <1>5, <1>6, <2>1 DEF TypeOK, JobType, MadeType, server
    <2>3. d \in raced' \/ link'[d] = link[d]
      BY <1>2, <1>5, <1>6 DEF SameProject
    <2>5. PlaceOf(p)' /\ CourseOf(p)' /\ ReadOf(p)'
      BY <1>3, <1>4, <2>1, IdleSafe
    <2> QED
      BY <1>1, <1>2, <1>5, <1>6, <2>1, <2>2, <2>5, RelinkSafe
  <1>7. CASE WriteLink(p, d, c.project) /\ Moves(p, "refresh", NoTarget)
    <2>1. /\ JobType' /\ OthersSame(p) /\ at'[p] = "refresh" /\ target'[p] = NoTarget /\ cmd'[p] = c
          /\ seen'[p] = seen[p]
      BY <1>1, <1>7, NoneTyped, Jobs, MovesEffect DEF Place
    <2>2. TypeOK'
      BY <1>1, <1>3, <1>5, <1>7, <2>1 DEF TypeOK, JobType, MadeType, server
    <2>4. PlaceOf(p)' /\ CourseOf(p)' /\ ReadOf(p)'
      BY <1>2, <1>3, <1>5, <1>7, <2>1 DEF PlaceOf, CourseOf, ReadOf, Using, Placed
    <2> QED
      BY <1>1, <1>2, <1>5, <1>7, <2>1, <2>2, <2>4, RelinkSafe
  <1>8. CASE link' \in Half(d) /\ Halts(p, AnyCommand) /\ UNCHANGED <<contents, raced>>
    <2>1. PICK l \in {link[d], "bad"} : link' = Set(link, d, l)
      BY <1>1, <1>2, <1>8 DEF Half, Set
    <2>2. /\ JobType' /\ OthersSame(p) /\ at'[p] = "idle" /\ target'[p] = NoTarget /\ cmd'[p] = AnyCommand
          /\ next'[p] = AnyCommand
      BY <1>1, <1>8, Jobs, HaltsEffect
    <2>3. /\ l \in Projects \cup {"none", "bad"} /\ link' \in [Dirs -> Projects \cup {"none", "bad"}]
          /\ link'[d] = l /\ \A e \in Dirs \ {d} : link'[e] = link[e]
          /\ l \in Projects => l = link[d]
      BY <1>1, <1>2, <2>1, LinkingAssumption DEF Set
    <2>4. TypeOK'
      BY <1>1, <1>3, <1>8, <2>2, <2>3 DEF TypeOK, JobType, MadeType, server
    <2>6. PlaceOf(p)' /\ CourseOf(p)' /\ ReadOf(p)'
      BY <1>3, <1>4, <2>2, IdleSafe
    <2> QED
      BY <1>1, <1>2, <1>8, <2>1, <2>2, <2>3, <2>4, <2>6, RelinkSafe DEF LinkingInv, LinkInv, server
  <1> QED
    BY <1>6, <1>7, <1>8 DEF Select

LEMMA KilledSafe ==
  ASSUME LinkingInv, NEW p \in People, Killed(p)
  PROVE  LinkingInv'
  <1> DEFINE d == DirOf(p)
  <1>1. /\ PlaceOf(p) /\ (p \notin late => ReadOf(p)) /\ TypeOK /\ at[p] # "idle"
        /\ UNCHANGED <<contents, server, runs, raced>> /\ Halts(p, AnyCommand) /\ cut' \subseteq Dirs
        /\ link \in [Dirs -> Projects \cup {"none", "bad"}] /\ AnyCommand.kind = "connect"
    BY Facts DEF Killed, AnyCommand, TypeOK
  <1>2. /\ JobType' /\ OthersSame(p) /\ at'[p] = "idle" /\ target'[p] = NoTarget /\ cmd'[p] = AnyCommand
        /\ next'[p] = AnyCommand
    BY <1>1, Jobs, HaltsEffect
  <1>3. made'[p] = {} => PlaceOf(p)' /\ CourseOf(p)' /\ ReadOf(p)'
    BY <1>1, <1>2, IdleSafe
  <1>4. CASE at[p] \in {"link", "select"} /\ link' \in Half(d) /\ Relinks(p, d, {}) /\ UNCHANGED env
    <2>1. d \in Dirs
      BY <1>1, <1>4 DEF PlaceOf, Using, Placed, DirOf
    <2>2. late' \subseteq People /\ MadeType' /\ made'[p] = {} /\ (p \in late' <=> p \in late)
      BY <1>1, <1>4, <2>1, RelinksTyped
    <2>3. PICK l \in {link[d], "bad"} : link' = Set(link, d, l)
      BY <1>1, <1>4, <2>1 DEF Half, Set
    <2>4. /\ l \in Projects \cup {"none", "bad"} /\ link' \in [Dirs -> Projects \cup {"none", "bad"}]
          /\ link'[d] = l /\ \A e \in Dirs \ {d} : link'[e] = link[e]
          /\ l \in Projects => l = link[d]
      BY <1>1, <2>1, <2>3, LinkingAssumption DEF Set
    <2>5. TypeOK'
      BY <1>1, <1>2, <1>4, <2>2, <2>4 DEF TypeOK, JobType, MadeType, server
    <2> QED
      BY <1>1, <1>2, <1>3, <1>4, <2>1, <2>2, <2>3, <2>4, <2>5, RelinkSafe DEF LinkingInv, LinkInv, server
  <1>5. ASSUME made' = Set(made, p, {}), UNCHANGED <<link, late>>, env' \in [Dirs -> Projects \cup {"none"}]
        PROVE  LinkingInv'
    <2>1. MadeType' /\ made'[p] = {} /\ \A r \in People \ {p} : made'[r] = made[r]
      BY <1>1, <1>5 DEF MadeType, TypeOK, Set
    <2>2. TypeOK' /\ StatusMoves
      BY <1>1, <1>2, <1>5, <2>1 DEF TypeOK, JobType, MadeType, server, StatusMoves, Exists, Usable
    <2> QED
      BY <1>1, <1>2, <1>3, <1>5, <2>1, <2>2, LinksKept
  <1>6. CASE /\ at[p] \in {"setUp", "refresh"} /\ env' \in {env, Set(env, d, "none")}
             /\ made' = Set(made, p, {}) /\ UNCHANGED <<link, late>>
    <2>1. d \in Dirs
      BY <1>1, <1>6 DEF PlaceOf, Using, Placed, DirOf
    <2> QED
      BY <1>1, <1>5, <1>6, <2>1 DEF TypeOK, Set
  <1>7. CASE /\ at[p] \notin {"link", "select", "setUp", "refresh"}
             /\ made' = Set(made, p, {}) /\ UNCHANGED <<link, env, late>>
    BY <1>1, <1>5, <1>7 DEF TypeOK
  <1> QED
    BY <1>4, <1>6, <1>7 DEF Killed

LEMMA ProjectsMoveSafe ==
  ASSUME LinkingInv, ProjectsMove
  PROVE  LinkingInv'
  <1>1. TypeOK /\ UNCHANGED <<files, job, runs, made, history>>
    BY DEF LinkingInv, ProjectsMove
  <1>2. StatusMoves /\ TypeOK'
    <2>1. CASE Activated
      BY <1>1, <2>1 DEF Activated, Set, TypeOK, StatusMoves, Exists, Usable, files, job, history
    <2>2. CASE Lose
      BY <1>1, <2>2, LinkingAssumption DEF Lose, Set, TypeOK, StatusMoves, Exists, Usable, files, job, history
    <2>3. CASE Deleted
      BY <1>1, <2>3, LinkingAssumption DEF Deleted, Set, TypeOK, StatusMoves, Exists, Usable, files, job, history
    <2> QED
      BY <2>1, <2>2, <2>3 DEF ProjectsMove
  <1>3. \A r \in People : PlaceOf(r)' /\ CourseOf(r)' /\ (r \notin late' => ReadOf(r)')
    BY <1>1, <1>2, OthersKeep DEF Same, files, job, history
  <1>4. PlaceInv' /\ CourseInv' /\ ReadInv'
    BY <1>3 DEF PlaceInv, CourseInv, ReadInv
  <1>5. LinkInv'
    BY <1>1, <1>2 DEF LinkingInv, LinkInv, StatusMoves, TypeOK, files, job, history
  <1>6. OneProjectEach'
    <2>1. \A r \in People : \A q \in made[r] : q \in Projects /\ status[q] # "none"
      BY <1>1 DEF LinkingInv, LinkInv, TypeOK
    <2> QED
      BY <1>1, <1>2, <2>1 DEF LinkingInv, OneProjectEach, StatusMoves
  <1> QED
    BY <1>2, <1>4, <1>5, <1>6 DEF LinkingInv

LEMMA StutterSafe ==
  ASSUME LinkingInv, UNCHANGED vars
  PROVE  LinkingInv'
  <1>1. TypeOK /\ UNCHANGED <<files, server, job, runs, made, history>>
    BY DEF LinkingInv, vars
  <1>2. StatusMoves /\ TypeOK'
    BY <1>1 DEF TypeOK, StatusMoves, Exists, Usable, files, server, job, history
  <1>3. \A r \in People : PlaceOf(r)' /\ CourseOf(r)' /\ (r \notin late' => ReadOf(r)')
    BY <1>1, <1>2, OthersKeep DEF Same, files, job, history
  <1>4. PlaceInv' /\ CourseInv' /\ ReadInv'
    BY <1>3 DEF PlaceInv, CourseInv, ReadInv
  <1>5. LinkInv'
    BY <1>1, <1>2 DEF LinkingInv, LinkInv, StatusMoves, TypeOK, files, job, history
  <1>6. OneProjectEach'
    <2>1. \A r \in People : \A q \in made[r] : q \in Projects /\ status[q] # "none"
      BY <1>1 DEF LinkingInv, LinkInv, TypeOK
    <2> QED
      BY <1>1, <1>2, <2>1 DEF LinkingInv, OneProjectEach, StatusMoves
  <1> QED
    BY <1>2, <1>4, <1>5, <1>6 DEF LinkingInv

LEMMA StartSafe == Init => LinkingInv
  <1> SUFFICES ASSUME Init PROVE LinkingInv
    OBVIOUS
  <1>1. AnyCommand.kind = "connect"
    BY DEF AnyCommand
  <1>2. TypeOK
    <2>1. /\ status \in [Projects -> {"none", "provisioning", "active", "failed", "deleting", "gone"}]
          /\ contents \in [Dirs -> {"missing", "empty", "files"}]
      BY DEF Init
    <2>2. link \in [Dirs -> Projects \cup {"none", "bad"}] /\ env \in [Dirs -> Projects \cup {"none"}]
      BY DEF Init
    <2> QED
      BY <2>1, <2>2, NoneTyped, LinkingAssumption DEF Init, TypeOK, Place
  <1>3. PlaceInv
    BY <1>1 DEF Init, PlaceInv, PlaceOf, Using, Placed
  <1>4. LinkInv
    BY LinkingAssumption DEF Init, LinkInv
  <1>5. CourseInv /\ ReadInv
    BY DEF Init, CourseInv, CourseOf, ReadInv, ReadOf, Placed
  <1>6. OneProjectEach
    BY DEF Init, OneProjectEach
  <1> QED
    BY <1>2, <1>3, <1>4, <1>5, <1>6 DEF LinkingInv

LEMMA StepsSafe ==
  ASSUME LinkingInv, [Next]_vars
  PROVE  LinkingInv'
  <1>1. ASSUME NEW p \in People, Step(p)
        PROVE  LinkingInv'
    BY <1>1, BeginSafe, SignInSafe, LookSafe, GetSafe, PlaceProjectSafe, CreateSafe, PrepareSafe, WaitSafe,
       PreviousSafe, LinkSafe, SetUpSafe, ResolveSafe, SelectSafe, RefreshSafe, KilledSafe DEF Step
  <1> QED
    BY <1>1, ProjectsMoveSafe, StutterSafe DEF Next

(***************************************************************************)
(* The keys, on top of what LinkingInv says of the links.                  *)
(***************************************************************************)
\* Who mends a directory still does after a step of somebody else that leaves its
\* link alone.
LEMMA OthersMend ==
  ASSUME LinkingInv, NEW r \in People, Same(r), NEW d \in Dirs, link'[d] = link[d],
         r \in late' => r \in late \/ DirOf(r) \in Dirs \ {d}, Mends(r, d)
  PROVE  Mends(r, d)'
  <1>1. PlaceOf(r)
    BY Facts
  <1>2. at[r] \in {"get", "prepare", "wait", "previous", "link", "setUp"} => cmd[r].kind = "connect"
    BY <1>1 DEF PlaceOf, Using
  <1>3. at[r] = "refresh" => cmd[r].kind = "use"
    BY <1>1 DEF PlaceOf, Using
  <1>4. at[r] \in {"signIn", "look"} => DirOf(r) \notin Dirs
    BY <1>1, LinkingAssumption DEF PlaceOf, Using, DirOf, NoTarget
  <1> QED
    BY <1>2, <1>3, <1>4 DEF Mends, Repairs, Same, DirOf, Start

\* A step that leaves the links and the keys alone.
LEMMA KeysKept ==
  ASSUME LinkingInv, KeysInv, NEW p \in People, UNCHANGED <<link, env, raced>>, StatusMoves, OthersSame(p), cut \subseteq cut',
         \A d \in Dirs : contents[d] = "files" => contents'[d] = "files",
         \A r \in People \ {p} : r \in late' <=> r \in late,
         at'[p] = "link" => contents'[target'[p].dir] = "files",
         at'[p] \in Using \cup {"setUp"} => Linked(DirOf(p))',
         p \notin late' => NamedOf(p)',
         \A d \in Dirs : Stale(d) /\ Mends(p, d) => d \in cut' \/ Mends(p, d)'
  PROVE  KeysInv'
  <1>1. \A r \in People : PlaceOf(r) /\ (r \notin late => NamedOf(r))
    BY Facts DEF KeysInv, NamedInv
  <1>2. KeyedInv'
    <2>1. ASSUME NEW r \in People \ {p}
          PROVE  /\ (at[r] = "link" => contents[target[r].dir] = "files")'
                 /\ (at[r] \in Using \cup {"setUp"} => Linked(DirOf(r)))'
      <3>1. Same(r) /\ (at[r] = "link" => target[r].dir \in Dirs)
        BY <1>1 DEF OthersSame, PlaceOf, Placed
      <3> QED
        BY <3>1 DEF KeysInv, KeyedInv, Same, DirOf, Linked
    <2> QED
      BY <2>1 DEF KeysInv, KeyedInv, Linked
  <1>3. NamedInv'
    BY <1>1 DEF NamedInv, NamedOf, OthersSame, Same
  <1>4. EnvFollowsLink'
    <2>1. ASSUME NEW d \in Dirs, Stale(d)', d \notin cut' \cup raced'
          PROVE  \E r \in People : Mends(r, d)'
      <3>1. Stale(d)
        BY <2>1 DEF Stale, StatusMoves, LinkingInv, LinkInv
      <3>2. PICK r \in People : Mends(r, d)
        BY <2>1, <3>1 DEF KeysInv, EnvFollowsLink
      <3>3. CASE r = p
        BY <2>1, <3>1, <3>2, <3>3
      <3>4. CASE r # p
        BY <3>2, <3>4, OthersMend DEF OthersSame
      <3> QED
        BY <3>3, <3>4
    <2> QED
      BY <2>1 DEF EnvFollowsLink
  <1> QED
    BY <1>2, <1>3, <1>4 DEF KeysInv

\* The command ends: what the person runs next mends what it was at.
LEMMA HaltsKeys ==
  ASSUME LinkingInv, KeysInv, NEW p \in People, NEW n \in Command \cup {AnyCommand}, Halts(p, n),
         UNCHANGED <<link, env, raced>>, StatusMoves, cut \subseteq cut',
         \A d \in Dirs : contents[d] = "files" => contents'[d] = "files",
         \A r \in People \ {p} : r \in late' <=> r \in late,
         \A d \in Dirs : Stale(d) /\ Mends(p, d) => d \in cut' \/ Repairs(n, d)
  PROVE  KeysInv'
  <1>1. JobType
    BY Jobs DEF LinkingInv
  <1>2. /\ OthersSame(p) /\ at'[p] = "idle" /\ target'[p] = NoTarget /\ cmd'[p] = AnyCommand /\ next'[p] = n
    BY <1>1, HaltsEffect
  <1>3. NamedOf(p)' /\ at'[p] \notin Using \cup {"setUp", "link"}
    BY <1>2 DEF NamedOf, Placed, Using
  <1>4. \A d \in Dirs : Repairs(n, d) => Mends(p, d)'
    BY <1>2 DEF Mends, Repairs, Start
  <1> QED
    BY <1>1, <1>2, <1>3, <1>4, KeysKept

\* The command goes on without a write.
LEMMA GoKeys ==
  ASSUME LinkingInv, KeysInv, NEW p \in People, NEW place \in Place, NEW t \in Target, Moves(p, place, t),
         UNCHANGED <<link, env, raced, late, cut>>, StatusMoves,
         \A d \in Dirs : contents[d] = "files" => contents'[d] = "files",
         place \notin {"link", "setUp"}, place \in Using => at[p] \in Using,
         p \notin late => NamedOf(p)',
         \A d \in Dirs : Stale(d) /\ Mends(p, d) => Mends(p, d)'
  PROVE  KeysInv'
  <1>1. JobType
    BY Jobs DEF LinkingInv
  <1>2. /\ OthersSame(p) /\ at'[p] = place /\ target'[p] = t /\ cmd'[p] = cmd[p] /\ seen'[p] = seen[p]
    BY <1>1, MovesEffect
  <1>3. at'[p] \in Using => Linked(DirOf(p))'
    <2>1. PlaceOf(p)
      BY Facts
    <2> QED
      BY <1>2, <2>1 DEF KeysInv, KeyedInv, DirOf, Linked, PlaceOf, Using
  <1>4. at'[p] \notin {"link", "setUp"}
    BY <1>2
  <1> QED
    BY <1>2, <1>3, <1>4, KeysKept

\* Where no link or key is written, the next place or the next command mends what
\* this one did.
LEMMA QuietKeys ==
  ASSUME LinkingInv, KeysInv, NEW p \in People,
         \/ SignIn(p) \/ Look(p) \/ Get(p) \/ PlaceProject(p) \/ Wait(p) \/ Resolve(p)
  PROVE  KeysInv'
  <1> DEFINE c == cmd[p]
             t == target[p]
  <1>1. /\ PlaceOf(p) /\ (p \notin late => ReadOf(p)) /\ (p \notin late => NamedOf(p)) /\ TypeOK
        /\ c \in Command \cup {AnyCommand} /\ t \in Target
    BY Facts DEF KeysInv, NamedInv
  <1>2. UNCHANGED <<files, server, runs, history>>
    BY DEF SignIn, Look, Get, PlaceProject, Wait, Resolve
  <1>3. /\ UNCHANGED <<link, env, status, raced, late, cut, contents>> /\ StatusMoves
    BY <1>2 DEF files, server, history, StatusMoves, Exists, Usable
  <1>4. ASSUME NEW n \in Command \cup {AnyCommand}, Stops(p, n),
               \A d \in Dirs : Stale(d) /\ Mends(p, d) => Repairs(n, d)
        PROVE  KeysInv'
    BY <1>3, <1>4, HaltsKeys DEF Stops
  <1>5. ASSUME NEW place \in Place, NEW g \in Target, Go(p, place, g),
               place \notin {"link", "setUp"}, place \in Using => at[p] \in Using,
               p \notin late => NamedOf(p)', \A d \in Dirs : Stale(d) /\ Mends(p, d) => Mends(p, d)'
        PROVE  KeysInv'
    BY <1>3, <1>5, GoKeys DEF Go
  <1>6. ASSUME NEW place \in Place, NEW g \in Target, Go(p, place, g)
        PROVE  at'[p] = place /\ target'[p] = g /\ cmd'[p] = c /\ seen'[p] = seen[p]
    BY <1>1, <1>6, GoEffect
  <1>7. CASE SignIn(p)
    <2> DEFINE g == [NoTarget EXCEPT !.dir = c.dir, !.project = c.project]
    <2>1. at[p] = "signIn" /\ \A d \in Dirs : Mends(p, d) => Repairs(c, d) /\ p \notin late
      BY <1>7 DEF SignIn, Mends
    <2>2. CASE Go(p, "look", NoTarget)
      <3>1. at'[p] = "look" /\ cmd'[p] = c
        BY <1>6, <2>2, NoneTyped DEF Place
      <3>2. NamedOf(p)' /\ \A d \in Dirs : Mends(p, d) => Mends(p, d)'
        BY <1>3, <2>1, <3>1 DEF Mends, NamedOf, Placed, Repairs, Start
      <3> QED
        BY <1>5, <2>2, <3>2, NoneTyped DEF Place, Using
    <2>3. CASE c.project # "none" /\ Go(p, "get", g)
      <3>1. g \in Target /\ g.created = "no" /\ g.dir = c.dir
        BY <1>1, <2>3, CommandFields DEF NoTarget, Target
      <3>2. at'[p] = "get" /\ target'[p] = g /\ cmd'[p] = c
        BY <1>6, <2>3, <3>1 DEF Place
      <3>3. \A d \in Dirs : Mends(p, d) => c.dir = d
        BY <2>1, <2>3 DEF Repairs
      <3>4. NamedOf(p)' /\ \A d \in Dirs : Mends(p, d) => Mends(p, d)'
        BY <1>3, <2>1, <3>1, <3>2, <3>3 DEF Mends, NamedOf, Placed, Repairs, Start
      <3> QED
        BY <1>5, <2>3, <3>1, <3>4 DEF Place, Using
    <2>4. CASE Stops(p, c)
      BY <1>1, <1>4, <2>1, <2>4
    <2> QED
      BY <1>7, <2>2, <2>3, <2>4 DEF SignIn
  <1>8. CASE Look(p)
    <2> DEFINE e == Start(c)
               g == [NoTarget EXCEPT !.dir = e, !.project = link[e]]
               h == [NoTarget EXCEPT !.dir = IF c.dir = "none" /\ ~Linked(e) THEN "none" ELSE e]
    <2>1. /\ at[p] = "look" /\ c.project = "none" /\ e \in Dirs
          /\ \A d \in Dirs : Mends(p, d) => e = d /\ Repairs(c, d) /\ p \notin late
      BY <1>1, <1>8, LinkingAssumption, CommandFields DEF Look, Mends, Repairs, PlaceOf, Start
    <2>2. link[e] \notin Projects => \A d \in Dirs : ~(Stale(d) /\ Mends(p, d))
      BY <2>1 DEF Stale
    <2>3. CASE BadLink(c) /\ Stops(p, AnyCommand)
      BY <1>4, <2>2, <2>3, LinkingAssumption DEF BadLink
    <2>4. CASE link[e] \in Projects /\ Go(p, "get", g)
      <3>1. g \in Target /\ g.created = "no" /\ g.dir = e
        BY <2>1, <2>4 DEF NoTarget, Target
      <3>2. at'[p] = "get" /\ target'[p] = g /\ cmd'[p] = c
        BY <1>6, <2>4, <3>1 DEF Place
      <3>3. NamedOf(p)' /\ \A d \in Dirs : Mends(p, d) => Mends(p, d)'
        BY <1>3, <2>1, <3>1, <3>2 DEF Mends, NamedOf, Placed, Repairs, Start
      <3> QED
        BY <1>5, <2>4, <3>1, <3>3 DEF Place, Using
    <2>5. CASE link[e] \notin Projects /\ Go(p, "create", h)
      <3>1. h \in Target
        BY <2>1 DEF NoTarget, Target
      <3>2. at'[p] = "create"
        BY <1>6, <2>5, <3>1 DEF Place
      <3> QED
        BY <1>5, <2>2, <2>5, <3>1, <3>2 DEF Place, Using, NamedOf, Placed
    <2> QED
      BY <1>8, <2>3, <2>4, <2>5 DEF Look
  <1>9. CASE Get(p)
    <2> DEFINE g == [t EXCEPT !.ready = Ready(t.project)]
    <2>1. /\ at[p] = "get" /\ t.created = "no" /\ t.project \in Projects
          /\ \A d \in Dirs : Mends(p, d) => t.dir = d /\ Repairs(c, d) /\ p \notin late
      BY <1>1, <1>9 DEF Get, Mends, PlaceOf
    <2>2. \A d \in Dirs : Stale(d) /\ Mends(p, d) => Exists(t.project)
      BY <1>1, <2>1 DEF Stale, ReadOf, PlaceOf, Repairs
    <2>3. CASE Go(p, IF t.dir = "none" THEN "place" ELSE "prepare", g)
      <3>1. g \in Target /\ g.created = "no" /\ g.dir = t.dir
        BY <1>1, <2>1 DEF Target, Ready
      <3>2. /\ at'[p] = (IF t.dir = "none" THEN "place" ELSE "prepare") /\ target'[p] = g /\ cmd'[p] = c
        BY <1>6, <2>3, <3>1 DEF Place
      <3>3. NamedOf(p)'
        BY <1>1, <2>1, <3>2, LinkingAssumption DEF NamedOf, Placed, PlaceOf
      <3>4. \A d \in Dirs : Mends(p, d) => Mends(p, d)'
        BY <1>3, <2>1, <3>1, <3>2, LinkingAssumption DEF Mends, Repairs, Start
      <3> QED
        BY <1>5, <2>3, <3>1, <3>3, <3>4 DEF Place, Using
    <2>4. CASE ~Exists(t.project) /\ Go(p, "create", t)
      <3>1. at'[p] = "create"
        BY <1>1, <1>6, <2>4 DEF Place
      <3> QED
        BY <1>1, <1>5, <2>2, <2>4, <3>1 DEF Place, Using, NamedOf, Placed
    <2>5. CASE ~Exists(t.project) /\ Stops(p, AnyCommand)
      BY <1>4, <2>2, <2>5
    <2>6. CASE Stops(p, c)
      BY <1>1, <1>4, <2>1, <2>6
    <2> QED
      BY <1>9, <2>3, <2>4, <2>5, <2>6 DEF Get, Replaceable
  <1>10. CASE PlaceProject(p)
    <2> DEFINE e == NameDir[t.project]
    <2>1. at[p] = "place" /\ t.project \in Projects /\ \A d \in Dirs : ~Mends(p, d)
      BY <1>1, <1>10 DEF PlaceProject, Mends, PlaceOf
    <2>2. e \in Dirs /\ Top \in Dirs /\ Connect(e, t.project) \in Command
      BY <2>1, ConnectTyped, LinkingAssumption DEF Dirs
    <2>3. ASSUME NEW d \in Dirs, link[d] \in {"none", t.project}, Go(p, "prepare", [t EXCEPT !.dir = d])
          PROVE  KeysInv'
      <3> DEFINE g == [t EXCEPT !.dir = d]
      <3>1. g \in Target /\ g.dir = d /\ g.project = t.project
        BY <1>1, <2>3 DEF Target
      <3>2. at'[p] = "prepare" /\ target'[p] = g
        BY <1>6, <2>3, <3>1 DEF Place
      <3>3. NamedOf(p)'
        BY <1>3, <2>3, <3>1, <3>2 DEF NamedOf
      <3> QED
        BY <1>5, <2>1, <2>3, <3>1, <3>3 DEF Place, Using
    <2>4. link[e] = "none" \/ contents[e] = "files"
      BY <2>2 DEF KeysInv, KeyedInv, Linked
    <2>5. CASE link[Top] = t.project /\ Go(p, "prepare", [t EXCEPT !.dir = Top])
      BY <2>2, <2>3, <2>5
    <2>6. CASE /\ ~(link[e] \in Projects /\ link[e] # t.project) /\ ~(link[e] \notin Projects /\ contents[e] = "files")
               /\ Go(p, "prepare", [t EXCEPT !.dir = e])
      <3>1. link[e] \in {"none", t.project}
        BY <1>1, <2>2, <2>4, <2>6 DEF TypeOK
      <3> QED
        BY <2>2, <2>3, <2>6, <3>1
    <2>7. CASE Stops(p, AnyCommand) \/ Stops(p, Connect(e, t.project))
      BY <1>4, <2>1, <2>2, <2>7
    <2> QED
      BY <1>10, <2>5, <2>6, <2>7 DEF PlaceProject
  <1>11. CASE Wait(p)
    <2>1. /\ at[p] = "wait" /\ t.created \in {"yes", "no"}
          /\ \A d \in Dirs : Mends(p, d) => t.dir = d /\ t.created = "no" /\ Repairs(c, d) /\ p \notin late
      BY <1>1, <1>11 DEF Wait, Mends, Target
    <2>2. CASE Go(p, "previous", t)
      <3>1. at'[p] = "previous" /\ target'[p] = t /\ cmd'[p] = c
        BY <1>1, <1>6, <2>2 DEF Place
      <3>2. p \notin late => NamedOf(p)'
        BY <1>1, <1>3, <2>1, <3>1 DEF NamedOf, Placed
      <3>3. \A d \in Dirs : Mends(p, d) => Mends(p, d)'
        BY <1>3, <2>1, <3>1 DEF Mends, Repairs, Start
      <3> QED
        BY <1>1, <1>5, <2>2, <3>2, <3>3 DEF Place, Using
    <2>3. CASE Stops(p, c)
      BY <1>1, <1>4, <2>1, <2>3
    <2>4. CASE Stops(p, WaitHint(p))
      <3>1. WaitHint(p) \in Command \cup {AnyCommand}
        BY <2>1, HintTyped DEF Placed, WaitHint
      <3>2. t.created = "no" => WaitHint(p) = c
        BY DEF WaitHint, UnlinkedHint
      <3> QED
        BY <1>4, <2>1, <2>4, <3>1, <3>2
    <2> QED
      BY <1>11, <2>2, <2>3, <2>4 DEF Wait
  <1>12. CASE Resolve(p)
    <2>1. at[p] = "resolve" /\ \A d \in Dirs : ~Mends(p, d)
      BY <1>12 DEF Resolve, Mends
    <2>2. CASE Go(p, "select", NoTarget)
      <3>1. at'[p] = "select"
        BY <1>6, <2>2, NoneTyped DEF Place
      <3> QED
        BY <1>5, <2>1, <2>2, <3>1, NoneTyped DEF Place, Using, NamedOf, Placed
    <2>3. CASE Stops(p, AnyCommand)
      BY <1>4, <2>1, <2>3
    <2> QED
      BY <1>12, <2>2, <2>3 DEF Resolve
  <1> QED
    BY <1>7, <1>8, <1>9, <1>10, <1>11, <1>12

LEMMA BeginKeys ==
  ASSUME LinkingInv, KeysInv, NEW p \in People, Begin(p)
  PROVE  KeysInv'
  <1>1. /\ PlaceOf(p) /\ TypeOK /\ at[p] = "idle" /\ late' = late \ {p} /\ next[p] \in Command \cup {AnyCommand}
        /\ UNCHANGED <<link, env, contents, status, cut, raced>>
    BY Facts DEF Begin, files, server
  <1>2. StatusMoves /\ \A r \in People \ {p} : r \in late' <=> r \in late
    BY <1>1 DEF StatusMoves, Exists, Usable
  <1>3. PICK c \in IF next[p] = AnyCommand THEN Commands ELSE {next[p]} :
         LET f == FindLink(c.dir)
             goes == IF c.kind = "connect" THEN ~BadLink(c) /\ ~NameIgnored(c) ELSE f.project \in Projects
         IN \/ /\ goes
               /\ cmd' = Set(cmd, p, c)
               /\ at' = Set(at, p, IF c.kind = "connect" THEN "signIn" ELSE "resolve")
               /\ seen' = IF c.kind = "connect" THEN seen ELSE Set(seen, p, f)
               /\ UNCHANGED <<target, next, made>>
            \/ ~goes /\ Stops(p, IF c.kind = "connect" /\ NameIgnored(c) THEN Connect(c.dir, "none") ELSE AnyCommand)
    BY DEF Begin
  <1>4. /\ c \in Command /\ c.dir \in Dirs \cup {"none"} /\ Start(c) \in Dirs /\ c.kind \in {"connect", "use"}
        /\ \A d \in Dirs : Mends(p, d) => Repairs(c, d)
        /\ c.kind = "use" => c.dir # "none" /\ \A d \in Dirs : ~Mends(p, d)
    <2>1. c \in Command
      BY <1>1, <1>3, LinkingAssumption
    <2>2. \A d \in Dirs : Mends(p, d) => next[p] # AnyCommand /\ c = next[p] /\ Repairs(c, d)
      BY <1>1, <1>3 DEF Mends, Repairs
    <2>3. c.kind = "use" => c.dir # "none"
      BY <1>1, <1>3, LinkingAssumption DEF PlaceOf, AnyCommand
    <2> QED
      BY <2>1, <2>2, <2>3, CommandFields DEF Repairs
  <1> DEFINE f == FindLink(c.dir)
  <1>5. CASE /\ c.kind = "connect" /\ cmd' = Set(cmd, p, c) /\ at' = Set(at, p, "signIn") /\ UNCHANGED <<seen, target, next>>
    <2>1. OthersSame(p) /\ at'[p] = "signIn" /\ cmd'[p] = c
      BY <1>1, <1>5 DEF Set, TypeOK, OthersSame, Same
    <2>2. NamedOf(p)' /\ \A d \in Dirs : Repairs(c, d) => Mends(p, d)'
      BY <1>1, <2>1 DEF NamedOf, Placed, Mends, Repairs, Start
    <2> QED
      BY <1>1, <1>2, <1>4, <2>1, <2>2, KeysKept DEF Using
  <1>6. CASE /\ c.kind = "use" /\ f.project \in Projects
             /\ cmd' = Set(cmd, p, c) /\ at' = Set(at, p, "resolve") /\ seen' = Set(seen, p, f)
             /\ UNCHANGED <<target, next>>
    <2>1. f.dir \in Dirs /\ Linked(f.dir)
      BY <1>1, <1>4, <1>6, LinkingAssumption DEF FindLink, NoLink, Linked, Dirs
    <2>2. OthersSame(p) /\ at'[p] = "resolve" /\ cmd'[p] = c /\ seen'[p] = f
      BY <1>1, <1>6 DEF Set, TypeOK, OthersSame, Same
    <2>3. NamedOf(p)' /\ Linked(DirOf(p))'
      BY <1>1, <1>6, <2>1, <2>2 DEF NamedOf, Placed, DirOf, Linked
    <2> QED
      BY <1>1, <1>2, <1>4, <1>6, <2>2, <2>3, KeysKept
  <1>7. CASE c.kind = "connect" /\ NameIgnored(c) /\ Stops(p, Connect(c.dir, "none"))
    <2>1. c.project = "none"
      BY <1>4, <1>7 DEF NameIgnored, Command
    <2>2. \A d \in Dirs : Repairs(c, d) => Repairs(Connect(c.dir, "none"), d)
      BY <1>4, <2>1, ConnectTyped DEF Repairs, Start
    <2> QED
      BY <1>1, <1>2, <1>4, <1>7, <2>2, ConnectTyped, HaltsKeys DEF Stops
  <1>8. CASE Stops(p, AnyCommand) /\ (c.kind = "connect" => BadLink(c))
    <2>1. \A d \in Dirs : Repairs(c, d) => ~Stale(d)
      BY <1>4, <1>8, LinkingAssumption DEF Repairs, Stale, BadLink, Asked
    <2> QED
      BY <1>1, <1>2, <1>4, <1>8, <2>1, HaltsKeys DEF Stops
  <1> QED
    BY <1>3, <1>4, <1>5, <1>6, <1>7, <1>8

LEMMA CreateKeys ==
  ASSUME LinkingInv, KeysInv, NEW p \in People, Create(p)
  PROVE  KeysInv'
  <1>1. /\ PlaceOf(p) /\ TypeOK /\ at[p] = "create" /\ UNCHANGED <<files, events, runs, history>>
        /\ cmd[p] \in Command \cup {AnyCommand} /\ target[p] \in Target
    BY Facts DEF Create
  <1>2. /\ UNCHANGED <<link, env, contents, cut, raced, late>> /\ \A d \in Dirs : ~Mends(p, d)
        /\ cmd[p].project = "none"
    BY <1>1 DEF files, history, Mends, PlaceOf
  <1>3. StatusMoves
    BY <1>1 DEF Create, TypeOK, Set, StatusMoves, Exists, Usable
  <1>4. CASE Stops(p, cmd[p])
    BY <1>1, <1>2, <1>3, <1>4, HaltsKeys DEF Stops
  <1>5. ASSUME NEW g \in Target, Moves(p, "prepare", g)
        PROVE  KeysInv'
    <2>1. NamedOf(p)'
      BY <1>1, <1>2, <1>5, Jobs, MovesEffect DEF NamedOf, Place
    <2> QED
      BY <1>2, <1>3, <1>5, <2>1, GoKeys DEF Place, Using
  <1>6. ASSUME NEW q \in Projects
        PROVE  (IF target[p].dir = "none" THEN NameDir[q] ELSE target[p].dir) \in Dirs
    BY <1>1, LinkingAssumption DEF Target, Dirs
  <1>7. ASSUME NEW q \in Projects, NEW d \in Dirs, NEW y \in {"yes", "no"}
        PROVE  [dir |-> d, project |-> q, created |-> "yes", ready |-> y] \in Target
    BY DEF Target
  <1> QED
    BY <1>4, <1>5, <1>6, <1>7 DEF Create

LEMMA PreparingKeys ==
  ASSUME LinkingInv, KeysInv, NEW p \in People, Prepare(p) \/ Previous(p)
  PROVE  KeysInv'
  <1> DEFINE c == cmd[p]
             t == target[p]
             u == UnlinkedHint(p)
  <1>1. /\ PlaceOf(p) /\ (p \notin late => NamedOf(p)) /\ TypeOK /\ at[p] \in {"prepare", "previous"}
        /\ UNCHANGED <<link, env, server, runs, history>>
        /\ c \in Command \cup {AnyCommand} /\ t \in Target
    BY Facts DEF Prepare, Previous, KeysInv, NamedInv
  <1>2. /\ t.dir \in Dirs /\ u \in Command \cup {AnyCommand} /\ t.created \in {"yes", "no"}
    BY <1>1, HintTyped DEF Placed
  <1>3. /\ \A d \in Dirs : contents[d] = "files" => contents'[d] = "files"
        /\ UNCHANGED <<link, env, status, cut, raced, late>> /\ StatusMoves
    BY <1>1, <1>2 DEF Prepare, Previous, TypeOK, Set, StatusMoves, Exists, Usable, server, history
  <1>4. \A d \in Dirs : Mends(p, d) => t.dir = d /\ p \notin late /\ t.created = "no" /\ Repairs(c, d) /\ u = c
    BY <1>1, <1>2 DEF Mends, UnlinkedHint
  <1>5. CASE Halts(p, u) \/ Halts(p, c)
    BY <1>1, <1>2, <1>3, <1>4, <1>5, HaltsKeys
  <1>6. ASSUME NEW place \in {"previous", "wait"}, Moves(p, place, t)
        PROVE  KeysInv'
    <2>1. at'[p] = place /\ target'[p] = t /\ cmd'[p] = c
      BY <1>1, <1>6, Jobs, MovesEffect DEF Place
    <2>2. p \notin late => NamedOf(p)'
      BY <1>1, <1>3, <2>1 DEF NamedOf, Placed
    <2>3. \A d \in Dirs : Mends(p, d) => Mends(p, d)'
      BY <1>3, <1>4, <2>1 DEF Mends, Repairs, Start
    <2> QED
      BY <1>1, <1>3, <1>6, <2>2, <2>3, GoKeys DEF Place, Using
  <1>7. CASE /\ contents' = Set(contents, t.dir, "files") /\ at' = Set(at, p, "link")
             /\ seen' = Set(seen, p, UsableLink(t.dir)) /\ UNCHANGED <<cmd, target, next>>
    <2>1. OthersSame(p) /\ at'[p] = "link" /\ target' = target /\ cmd' = cmd
      BY <1>1, <1>7 DEF OthersSame, Same, Set, TypeOK
    <2>2. contents'[t.dir] = "files"
      BY <1>1, <1>2, <1>7 DEF Set, TypeOK
    <2>3. p \notin late' => NamedOf(p)'
      BY <1>1, <1>3, <2>1 DEF NamedOf, Placed
    <2>4. \A d \in Dirs : Mends(p, d) => Mends(p, d)'
      BY <1>3, <1>4, <2>1 DEF Mends, Repairs, Start
    <2> QED
      BY <1>3, <2>1, <2>2, <2>3, <2>4, KeysKept DEF Using
  <1> QED
    BY <1>5, <1>6, <1>7 DEF Prepare, Previous, Stops, Go

\* A step that may write the link of directory d: the others keep at theirs.
LEMMA RelinkKeys ==
  ASSUME LinkingInv, KeysInv, NEW p \in People, NEW d \in Dirs, NEW l, NEW mine, link' = Set(link, d, l), env' = env,
         l # "none" \/ l = link[d], l # "none" => contents'[d] = "files",
         \A e \in Dirs : contents[e] = "files" => contents'[e] = "files",
         status' = status, cut \subseteq cut', raced \subseteq raced', OthersSame(p), Relinks(p, d, mine),
         \A e \in Dirs \ {d} : ~Mends(p, e), at'[p] # "link",
         at'[p] \in Using \cup {"setUp"} => DirOf(p)' = d /\ l # "none",
         p \notin late => NamedOf(p)',
         Stale(d)' => d \in cut' \cup raced' \/ \E r \in People : Mends(r, d)'
  PROVE  KeysInv'
  <1>1. /\ link'[d] = l /\ \A e \in Dirs \ {d} : link'[e] = link[e]
        /\ TypeOK /\ late \subseteq late' /\ (p \in late' => p \in late)
    BY DEF LinkingInv, TypeOK, Set, Relinks
  <1>2. ASSUME NEW r \in People \ {p}
        PROVE  /\ PlaceOf(r) /\ Same(r) /\ (r \notin late => NamedOf(r))
               /\ r \in late' => r \in late \/ DirOf(r) = d
               /\ r \notin late' => at[r] = "idle" \/ DirOf(r) # d \/ link'[d] = link[d]
    BY <1>2, Facts DEF OthersSame, Relinks, KeysInv, NamedInv
  <1>3. KeyedInv'
    <2>1. ASSUME NEW r \in People \ {p}
          PROVE  /\ (at[r] = "link" => contents[target[r].dir] = "files")'
                 /\ (at[r] \in Using \cup {"setUp"} => Linked(DirOf(r)))'
      <3>1. /\ at[r] = "link" => target[r].dir \in Dirs
            /\ at[r] \in Using \cup {"setUp"} => DirOf(r) \in Dirs
        BY <1>2 DEF PlaceOf, Placed, Using, DirOf
      <3> QED
        BY <1>1, <1>2, <3>1 DEF KeysInv, KeyedInv, Same, DirOf, Linked
    <2> QED
      BY <1>1, <2>1 DEF KeysInv, KeyedInv, Linked
  <1>4. NamedInv'
    <2>1. ASSUME NEW r \in People \ {p}, r \notin late'
          PROVE  NamedOf(r)'
      <3>1. at[r] \in Placed => target[r].dir \in Dirs /\ DirOf(r) = target[r].dir
        BY <1>2 DEF PlaceOf, Placed, Using, DirOf
      <3> QED
        BY <1>1, <1>2, <2>1, <3>1 DEF NamedOf, Same, Placed
    <2> QED
      BY <1>1, <2>1 DEF NamedInv
  <1>5. EnvFollowsLink'
    <2>1. ASSUME NEW e \in Dirs \ {d}, Stale(e)', e \notin cut' \cup raced'
          PROVE  \E r \in People : Mends(r, e)'
      <3>1. Stale(e) /\ e \notin cut \cup raced
        BY <1>1, <2>1 DEF Stale, Exists
      <3>2. PICK r \in People : Mends(r, e)
        BY <3>1 DEF KeysInv, EnvFollowsLink
      <3>3. r # p
        BY <2>1, <3>2
      <3>4. Mends(r, e)'
        BY <1>1, <1>2, <2>1, <3>2, <3>3, OthersMend
      <3> QED
        BY <3>4
    <2> QED
      BY <2>1 DEF EnvFollowsLink
  <1> QED
    BY <1>3, <1>4, <1>5 DEF KeysInv

\* Who mends a directory still does when somebody else writes its link again.
LEMMA Rewritten ==
  ASSUME LinkingInv, KeysInv, NEW p \in People, NEW d \in Dirs, NEW mine, link'[d] = link[d], UNCHANGED <<env, status>>,
         OthersSame(p), Relinks(p, d, mine), ~Mends(p, d), Stale(d)', d \notin cut \cup raced
  PROVE  \E r \in People : Mends(r, d)'
  <1>1. Stale(d) /\ \A r \in People : r \in late' => r \in late
    BY DEF Stale, Exists, Relinks
  <1>2. PICK r \in People : Mends(r, d)
    BY <1>1 DEF KeysInv, EnvFollowsLink
  <1>3. Mends(r, d)'
    BY <1>1, <1>2, OthersMend DEF OthersSame
  <1> QED
    BY <1>3

LEMMA LinkKeys ==
  ASSUME LinkingInv, KeysInv, NEW p \in People, Link(p)
  PROVE  KeysInv'
  <1> DEFINE c == cmd[p]
             t == target[p]
             u == UnlinkedHint(p)
  <1>0. PICK d \in Dirs : d = t.dir
    BY Facts DEF PlaceOf, Placed, Link
  <1>1. /\ PlaceOf(p) /\ (p \notin late => NamedOf(p)) /\ TypeOK /\ at[p] = "link"
        /\ UNCHANGED <<env, server, runs, cut>> /\ Relinks(p, d, made[p])
        /\ c \in Command \cup {AnyCommand} /\ t \in Target
    BY <1>0, Facts DEF Link, KeysInv, NamedInv
  <1>2. /\ d \in Dirs /\ t.project \in Projects /\ u \in Command \cup {AnyCommand} /\ t.created \in {"yes", "no"}
        /\ DirOf(p) = d /\ contents[d] = "files" /\ status' = status /\ c # AnyCommand /\ c.kind = "connect"
        /\ p \in late' <=> p \in late
    BY <1>0, <1>1, HintTyped DEF Placed, DirOf, KeysInv, KeyedInv, server, Relinks, PlaceOf, Using
  <1>3. \A e \in Dirs : Mends(p, e) => e = d /\ p \notin late /\ t.created = "no" /\ Repairs(c, d) /\ u = c
    BY <1>0, <1>1, <1>2 DEF Mends, UnlinkedHint
  <1>4. CASE WriteLink(p, d, t.project) /\ Moves(p, "setUp", t)
    <2>1. OthersSame(p) /\ at'[p] = "setUp" /\ target'[p] = t /\ cmd'[p] = c
      BY <1>1, <1>4, Jobs, MovesEffect DEF Place
    <2>2. /\ contents'[d] = "files" /\ \A e \in Dirs : contents[e] = "files" => contents'[e] = "files"
          /\ link' = Set(link, d, t.project) /\ link'[d] = t.project /\ raced \subseteq raced' /\ (p \in late => d \in raced')
      BY <1>1, <1>2, <1>4 DEF WriteLink, TypeOK, Set
    <2>3. NamedOf(p)' /\ DirOf(p)' = d
      BY <1>0, <1>2, <2>1, <2>2 DEF NamedOf, DirOf
    <2>4. ASSUME Stale(d)', p \notin late, d \notin cut' \cup raced'
          PROVE  \E r \in People : Mends(r, d)'
      <3>1. CASE t.created = "yes"
        BY <1>0, <1>2, <2>1, <2>4, <3>1 DEF Mends
      <3>2. CASE t.created = "no" /\ (c.project = "none" \/ c.dir # "none")
        <4>1. Repairs(cmd[p], d)'
          BY <1>0, <1>1, <1>2, <2>1, <2>2, <3>2, LinkingAssumption DEF Repairs, Start, PlaceOf, Placed
        <4>2. Mends(p, d)'
          BY <1>0, <1>1, <1>2, <2>1, <2>4, <3>2, <4>1 DEF Mends, Relinks
        <4> QED
          BY <4>2
      <3>3. CASE t.created = "no" /\ c.project # "none" /\ c.dir = "none"
        <4>1. link[d] \in {"none", t.project}
          BY <1>0, <1>1, <2>4, <3>3 DEF NamedOf, Placed
        <4>2. link[d] = t.project
          BY <1>1, <1>2, <2>2, <2>4, <4>1 DEF Stale, KeysInv, KeyedInv, Linked
        <4>3. ~Mends(p, d)
          BY <1>2, <1>3, <3>3, LinkingAssumption DEF Repairs
        <4> QED
          BY <1>1, <1>2, <2>1, <2>2, <2>4, <4>2, <4>3, Rewritten
      <3> QED
        BY <1>2, <3>1, <3>2, <3>3
    <2> QED
      BY <1>1, <1>2, <1>3, <2>1, <2>2, <2>3, <2>4, RelinkKeys, LinkingAssumption
  <1>5. CASE link' \in Half(d) /\ Halts(p, u) /\ UNCHANGED <<contents, raced>>
    <2>1. PICK l \in {link[d], "bad"} : link' = Set(link, d, l)
      BY <1>1, <1>2, <1>5 DEF Half, Set, TypeOK
    <2>2. OthersSame(p) /\ at'[p] = "idle" /\ next'[p] = u
      BY <1>1, <1>2, <1>5, Jobs, HaltsEffect
    <2>3. NamedOf(p)' /\ link'[d] = l
      BY <1>1, <1>2, <2>1, <2>2 DEF NamedOf, Placed, Set, TypeOK
    <2>4. ASSUME Stale(d)', d \notin cut' \cup raced'
          PROVE  \E r \in People : Mends(r, d)'
      <3>1. link'[d] = link[d]
        BY <2>1, <2>3, <2>4, LinkingAssumption DEF Stale
      <3>2. CASE Mends(p, d)
        <4>1. Repairs(next[p], d)'
          BY <1>3, <2>2, <3>1, <3>2 DEF Repairs, Start
        <4>2. Mends(p, d)'
          BY <2>2, <4>1 DEF Mends
        <4> QED
          BY <4>2
      <3>3. CASE ~Mends(p, d)
        BY <1>1, <1>2, <1>5, <2>2, <2>4, <3>1, <3>3, Rewritten
      <3> QED
        BY <3>2, <3>3
    <2> QED
      BY <1>1, <1>2, <1>3, <1>5, <2>1, <2>2, <2>3, <2>4, RelinkKeys, LinkingAssumption DEF Using
  <1> QED
    BY <1>0, <1>4, <1>5 DEF Link

LEMMA SelectKeys ==
  ASSUME LinkingInv, KeysInv, NEW p \in People, Select(p)
  PROVE  KeysInv'
  <1> DEFINE c == cmd[p]
  <1>0. PICK d \in Dirs : d = seen[p].dir
    BY Facts DEF PlaceOf, Using, Select
  <1>1. /\ PlaceOf(p) /\ (p \notin late => ReadOf(p)) /\ TypeOK /\ at[p] = "select"
        /\ UNCHANGED <<env, server, runs, cut>> /\ Relinks(p, d, {})
    BY <1>0, Facts DEF Select
  <1>2. /\ d \in Dirs /\ c.project \in Projects /\ c.kind = "use" /\ DirOf(p) = d
        /\ contents[d] = "files" /\ status' = status /\ (p \in late' <=> p \in late)
        /\ p \notin late => link[d] = seen[p].project
        /\ \A e \in Dirs : ~Mends(p, e)
    <2>1. d \in Dirs /\ c.kind = "use" /\ DirOf(p) = d /\ c.project \in Projects
      BY <1>0, <1>1 DEF PlaceOf, Using, DirOf
    <2>2. contents[d] = "files"
      BY <1>1, <2>1 DEF KeysInv, KeyedInv, Using
    <2> QED
      BY <1>0, <1>1, <2>1, <2>2 DEF ReadOf, server, Relinks, Mends
  <1>3. ASSUME WriteLink(p, d, c.project)
        PROVE  /\ contents'[d] = "files" /\ \A e \in Dirs : contents[e] = "files" => contents'[e] = "files"
               /\ link' = Set(link, d, c.project) /\ link'[d] = c.project
               /\ raced \subseteq raced' /\ (p \in late => d \in raced')
    BY <1>1, <1>2, <1>3 DEF WriteLink, TypeOK, Set
  <1>4. CASE WriteLink(p, d, c.project) /\ SameProject(p) /\ Halts(p, AnyCommand)
    <2>1. OthersSame(p) /\ at'[p] = "idle"
      BY <1>1, <1>4, Jobs, HaltsEffect
    <2>2. ASSUME Stale(d)', d \notin cut' \cup raced'
          PROVE  \E r \in People : Mends(r, d)'
      <3>1. link'[d] = link[d] /\ d \notin cut \cup raced
        BY <1>1, <1>2, <1>3, <1>4, <2>2 DEF SameProject
      <3> QED
        BY <1>1, <1>2, <2>1, <2>2, <3>1, Rewritten
    <2>3. NamedOf(p)'
      BY <2>1 DEF NamedOf, Placed
    <2> QED
      BY <1>1, <1>2, <1>3, <1>4, <2>1, <2>2, <2>3, RelinkKeys, LinkingAssumption DEF Using
  <1>5. CASE WriteLink(p, d, c.project) /\ Moves(p, "refresh", NoTarget)
    <2>1. OthersSame(p) /\ at'[p] = "refresh" /\ cmd'[p] = c /\ seen'[p] = seen[p]
      BY <1>0, <1>1, <1>5, NoneTyped, Jobs, MovesEffect DEF Place
    <2>2. NamedOf(p)' /\ DirOf(p)' = d /\ (p \notin late => Mends(p, d)')
      BY <1>0, <1>1, <1>2, <2>1 DEF NamedOf, Placed, DirOf, Mends, Relinks
    <2> QED
      BY <1>1, <1>2, <1>3, <1>5, <2>1, <2>2, RelinkKeys, LinkingAssumption
  <1>6. CASE link' \in Half(d) /\ Halts(p, AnyCommand) /\ UNCHANGED <<contents, raced>>
    <2>1. PICK l \in {link[d], "bad"} : link' = Set(link, d, l)
      BY <1>1, <1>2, <1>6 DEF Half, Set, TypeOK
    <2>2. OthersSame(p) /\ at'[p] = "idle"
      BY <1>1, <1>6, Jobs, HaltsEffect
    <2>3. NamedOf(p)' /\ link'[d] = l
      BY <1>1, <1>2, <2>1, <2>2 DEF NamedOf, Placed, Set, TypeOK
    <2>4. ASSUME Stale(d)', d \notin cut' \cup raced'
          PROVE  \E r \in People : Mends(r, d)'
      <3>1. link'[d] = link[d]
        BY <2>1, <2>3, <2>4, LinkingAssumption DEF Stale
      <3> QED
        BY <1>1, <1>2, <1>6, <2>2, <2>4, <3>1, Rewritten
    <2> QED
      BY <1>1, <1>2, <1>6, <2>1, <2>2, <2>3, <2>4, RelinkKeys, LinkingAssumption DEF Using
  <1> QED
    BY <1>0, <1>4, <1>5, <1>6 DEF Select

\* A step that may write the key of directory d: the others keep at theirs.
LEMMA EnvKeys ==
  ASSUME LinkingInv, KeysInv, NEW p \in People, NEW d \in Dirs, UNCHANGED <<link, contents, status, late>>,
         OthersSame(p), at'[p] = "idle", Linked(d),
         \A e \in Dirs \ {d} : env'[e] = env[e] /\ ~Mends(p, e) /\ (e \in cut \cup raced => e \in cut' \cup raced'),
         Stale(d)' => d \in cut' \cup raced' \/ \E r \in People : Mends(r, d)'
  PROVE  KeysInv'
  <1>1. ASSUME NEW r \in People \ {p}
        PROVE  PlaceOf(r) /\ Same(r) /\ (r \notin late => NamedOf(r))
    BY Facts DEF OthersSame, KeysInv, NamedInv
  <1>2. KeyedInv'
    <2>1. ASSUME NEW r \in People \ {p}
          PROVE  /\ (at[r] = "link" => contents[target[r].dir] = "files")'
                 /\ (at[r] \in Using \cup {"setUp"} => Linked(DirOf(r)))'
      BY <1>1 DEF KeysInv, KeyedInv, Same, DirOf, Linked
    <2> QED
      BY <2>1 DEF KeysInv, KeyedInv, Linked, Using
  <1>3. NamedInv'
    BY <1>1 DEF NamedInv, NamedOf, Same, Placed
  <1>4. EnvFollowsLink'
    <2>1. ASSUME NEW e \in Dirs \ {d}, Stale(e)', e \notin cut' \cup raced'
          PROVE  \E r \in People : Mends(r, e)'
      <3>1. Stale(e) /\ e \notin cut \cup raced
        BY <2>1 DEF Stale, Exists
      <3>2. PICK r \in People : Mends(r, e)
        BY <3>1 DEF KeysInv, EnvFollowsLink
      <3>3. r # p
        BY <2>1, <3>2
      <3> QED
        BY <1>1, <2>1, <3>2, <3>3, OthersMend
    <2> QED
      BY <2>1 DEF EnvFollowsLink
  <1> QED
    BY <1>2, <1>3, <1>4 DEF KeysInv

\* The command ends with the key written.
LEMMA WrittenKeys ==
  ASSUME LinkingInv, KeysInv, NEW p \in People, NEW d \in Dirs, NEW q \in Projects, NEW n \in Command \cup {AnyCommand},
         UNCHANGED <<link, contents, status, late>>, EnvWritten(p, d, q), Halts(p, n), Linked(d),
         p \notin late => link[d] = q, \A e \in Dirs \ {d} : ~Mends(p, e)
  PROVE  KeysInv'
  <1>1. OthersSame(p) /\ at'[p] = "idle"
    BY Jobs, HaltsEffect DEF LinkingInv
  <1>2. /\ env'[d] = q /\ \A e \in Dirs \ {d} : env'[e] = env[e] /\ (e \in cut \cup raced => e \in cut' \cup raced')
        /\ p \in late => d \in raced'
    BY DEF EnvWritten, LinkingInv, TypeOK, Set
  <1>3. Stale(d)' => d \in raced'
    BY <1>2 DEF Stale
  <1> QED
    BY <1>1, <1>2, <1>3, EnvKeys

\* The command ends without it: what the person runs next writes it.
LEMMA UnwrittenKeys ==
  ASSUME LinkingInv, KeysInv, NEW p \in People, NEW d \in Dirs, NEW n \in Command \cup {AnyCommand},
         UNCHANGED <<link, contents, status, late, raced>>, env' \in {env, Set(env, d, "none")}, cut \subseteq cut',
         Halts(p, n), Linked(d), \A e \in Dirs \ {d} : ~Mends(p, e),
         Stale(d) /\ Mends(p, d) => d \in cut' \/ Repairs(n, d)
  PROVE  KeysInv'
  <1>1. OthersSame(p) /\ at'[p] = "idle" /\ next'[p] = n
    BY Jobs, HaltsEffect DEF LinkingInv
  <1>2. \A e \in Dirs \ {d} : env'[e] = env[e]
    BY DEF LinkingInv, TypeOK, Set
  <1>3. ASSUME Stale(d)', d \notin cut' \cup raced'
        PROVE  \E r \in People : Mends(r, d)'
    <2>1. Stale(d) /\ d \notin cut \cup raced
      BY <1>3 DEF LinkingInv, TypeOK, Set, Stale, Exists
    <2>2. PICK r \in People : Mends(r, d)
      BY <2>1 DEF KeysInv, EnvFollowsLink
    <2>3. CASE r = p
      <3>1. Repairs(n, d)
        BY <1>3, <2>1, <2>2, <2>3
      <3>2. Mends(p, d)'
        BY <1>1, <3>1 DEF Mends, Repairs, Start
      <3> QED
        BY <3>2
    <2>4. CASE r # p
      BY <1>1, <2>2, <2>4, OthersMend DEF OthersSame
    <2> QED
      BY <2>3, <2>4
  <1> QED
    BY <1>1, <1>2, <1>3, EnvKeys

LEMMA SetUpKeys ==
  ASSUME LinkingInv, KeysInv, NEW p \in People, SetUp(p)
  PROVE  KeysInv'
  <1> DEFINE c == cmd[p]
             t == target[p]
  <1>1. /\ PlaceOf(p) /\ (p \notin late => ReadOf(p)) /\ TypeOK /\ at[p] = "setUp"
        /\ c \in Command \cup {AnyCommand} /\ t \in Target /\ LinkedHint(p) \in Command \cup {AnyCommand}
        /\ t.dir \in Dirs /\ t.project \in Projects /\ t.created \in {"yes", "no"}
        /\ UNCHANGED <<contents, link, status, late>>
    BY Facts, HintTyped DEF SetUp, Placed, server
  <1>2. PICK d \in Dirs : d = t.dir
    BY <1>1
  <1>3. /\ Linked(d) /\ (p \notin late => link[d] = t.project) /\ \A e \in Dirs \ {d} : ~Mends(p, e)
    BY <1>1, <1>2 DEF KeysInv, KeyedInv, DirOf, PlaceOf, Using, ReadOf, Mends
  <1>4. CASE EnvFails(d) /\ Stops(p, LinkedHint(p))
    <2>1. Mends(p, d) => Repairs(LinkedHint(p), d)
      <3>1. CASE t.created = "no"
        BY <1>1, <3>1 DEF Mends, LinkedHint
      <3>2. CASE t.created = "yes" /\ d = Top
        <4>1. c.project = "none" /\ Start(c) = d /\ c # AnyCommand /\ c.kind = "connect"
          BY <1>1, <1>2, <3>2, LinkingAssumption DEF PlaceOf, Placed, Using
        <4> QED
          BY <1>2, <3>2, <4>1 DEF LinkedHint, Repairs
      <3>3. CASE t.created = "yes" /\ d # Top
        <4>1. LinkedHint(p) = Connect(d, "none") /\ Start(Connect(d, "none")) = d
          BY <1>2, <3>3, ConnectTyped, LinkingAssumption DEF LinkedHint, Start
        <4> QED
          BY <4>1, ConnectTyped DEF Repairs
      <3> QED
        BY <1>1, <3>1, <3>2, <3>3
    <2> QED
      BY <1>1, <1>3, <1>4, <2>1, UnwrittenKeys DEF EnvFails, Stops
  <1>5. ASSUME NEW n \in Command \cup {AnyCommand}, EnvWritten(p, d, t.project), Stops(p, n)
        PROVE  KeysInv'
    BY <1>1, <1>3, <1>5, WrittenKeys DEF Stops
  <1> QED
    BY <1>1, <1>2, <1>4, <1>5 DEF SetUp

LEMMA RefreshKeys ==
  ASSUME LinkingInv, KeysInv, NEW p \in People, Refresh(p)
  PROVE  KeysInv'
  <1> DEFINE c == cmd[p]
  <1>1. /\ PlaceOf(p) /\ (p \notin late => ReadOf(p)) /\ TypeOK /\ at[p] = "refresh"
        /\ UNCHANGED <<contents, link, status, late>>
    BY Facts DEF Refresh, server
  <1>2. PICK d \in Dirs : d = seen[p].dir
    BY <1>1 DEF PlaceOf, Using
  <1>3. /\ c.project \in Projects /\ Linked(d) /\ (p \notin late => link[d] = c.project)
        /\ \A e \in Dirs \ {d} : ~Mends(p, e)
    BY <1>1, <1>2 DEF KeysInv, KeyedInv, DirOf, PlaceOf, Using, ReadOf, Mends
  <1>4. CASE env[d] = "none" /\ Stops(p, AnyCommand) /\ UNCHANGED <<env, cut, raced>>
    BY <1>1, <1>3, <1>4, UnwrittenKeys DEF Stops, Stale
  <1>5. CASE EnvWritten(p, d, c.project) /\ Stops(p, AnyCommand)
    BY <1>1, <1>3, <1>5, WrittenKeys DEF Stops
  <1>6. CASE EnvFails(d) /\ Stops(p, Connect(d, "none"))
    <2>1. Repairs(Connect(d, "none"), d)
      BY ConnectTyped, LinkingAssumption DEF Repairs, Start
    <2> QED
      BY <1>1, <1>3, <1>6, <2>1, ConnectTyped, UnwrittenKeys DEF EnvFails, Stops
  <1> QED
    BY <1>2, <1>4, <1>5, <1>6 DEF Refresh, RefreshHint

LEMMA KilledKeys ==
  ASSUME LinkingInv, KeysInv, NEW p \in People, Killed(p)
  PROVE  KeysInv'
  <1>1. /\ PlaceOf(p) /\ TypeOK /\ Halts(p, AnyCommand) /\ UNCHANGED <<contents, status, raced>>
        /\ AnyCommand \in Command \cup {AnyCommand} /\ cut \subseteq cut'
        /\ \A d \in Dirs : Stale(d) /\ Mends(p, d) => d \in cut'
    BY Facts DEF Killed, server
  <1>2. OthersSame(p) /\ at'[p] = "idle"
    BY <1>1, Jobs, HaltsEffect
  <1>3. CASE at[p] \in {"link", "select"} /\ link' \in Half(DirOf(p)) /\ Relinks(p, DirOf(p), {}) /\ env' = env
    <2>1. PICK d \in Dirs : d = DirOf(p)
      BY <1>1, <1>3 DEF PlaceOf, Using, Placed, DirOf
    <2>2. contents[d] = "files"
      BY <1>1, <1>3, <2>1 DEF KeysInv, KeyedInv, PlaceOf, Using, DirOf
    <2>3. PICK l \in {link[d], "bad"} : link' = Set(link, d, l)
      BY <1>1, <1>3, <2>1 DEF Half, Set, TypeOK
    <2>4. \A e \in Dirs \ {d} : ~Mends(p, e)
      BY <1>1, <1>3, <2>1 DEF Mends, DirOf, PlaceOf, Using
    <2>5. ASSUME Stale(d)', d \notin cut' \cup raced'
          PROVE  \E r \in People : Mends(r, d)'
      <3>1. link'[d] = link[d]
        BY <1>1, <2>3, <2>5, LinkingAssumption DEF Stale, Set, TypeOK
      <3>2. ~Mends(p, d)
        BY <1>1, <1>3, <2>5, <3>1 DEF Stale, Exists
      <3> QED
        BY <1>1, <1>2, <1>3, <2>1, <2>5, <3>1, <3>2, Rewritten
    <2>6. NamedOf(p)' /\ at'[p] \notin Using \cup {"setUp", "link"}
      BY <1>2 DEF NamedOf, Placed, Using
    <2>7. l # "none" \/ l = link[d]
      BY <2>3
    <2> QED
      BY <1>1, <1>2, <1>3, <2>1, <2>2, <2>3, <2>4, <2>5, <2>6, <2>7, RelinkKeys
  <1>4. CASE at[p] \in {"setUp", "refresh"} /\ env' \in {env, Set(env, DirOf(p), "none")} /\ UNCHANGED <<link, late>>
    <2>1. PICK d \in Dirs : d = DirOf(p)
      BY <1>1, <1>4 DEF PlaceOf, Using, Placed, DirOf
    <2>2. Linked(d)
      BY <1>4, <2>1 DEF KeysInv, KeyedInv, Using
    <2>3. \A e \in Dirs \ {d} : ~Mends(p, e)
      BY <1>1, <1>4, <2>1 DEF Mends, DirOf, PlaceOf, Using
    <2> QED
      BY <1>1, <1>4, <2>1, <2>2, <2>3, UnwrittenKeys
  <1>5. CASE UNCHANGED <<link, env, late>>
    <2>1. StatusMoves
      BY <1>1 DEF StatusMoves, Exists, Usable
    <2> QED
      BY <1>1, <1>5, <2>1, HaltsKeys
  <1> QED
    BY <1>3, <1>4, <1>5 DEF Killed

\* What becomes of the projects, and nothing at all.
LEMMA RestKeys ==
  ASSUME LinkingInv, KeysInv, ProjectsMove \/ UNCHANGED vars
  PROVE  KeysInv'
  <1>1. UNCHANGED <<files, job, late, cut, raced>>
    BY DEF ProjectsMove, vars, history
  <1>2. StatusMoves
    BY DEF ProjectsMove, Activated, Lose, Deleted, StatusMoves, Set, Exists, Usable, LinkingInv, TypeOK, vars, server
  <1>3. \A r \in People : Same(r)
    BY <1>1 DEF Same, job
  <1>4. KeyedInv' /\ NamedInv'
    BY <1>1 DEF KeysInv, KeyedInv, NamedInv, NamedOf, Linked, DirOf, files, job
  <1>5. EnvFollowsLink'
    <2>1. ASSUME NEW d \in Dirs, Stale(d)', d \notin cut' \cup raced'
          PROVE  \E r \in People : Mends(r, d)'
      <3>1. Stale(d) /\ d \notin cut \cup raced
        BY <1>1, <1>2, <2>1 DEF Stale, StatusMoves, LinkingInv, LinkInv, files
      <3>2. PICK r \in People : Mends(r, d)
        BY <3>1 DEF KeysInv, EnvFollowsLink
      <3> QED
        BY <1>1, <1>3, <3>2, OthersMend DEF files
    <2> QED
      BY <2>1 DEF EnvFollowsLink
  <1> QED
    BY <1>4, <1>5 DEF KeysInv

LEMMA KeysStart == Init => KeysInv
  <1>1. Init => KeyedInv /\ NamedInv
    BY LinkingAssumption DEF Init, KeyedInv, NamedInv, NamedOf, Placed, Using, Linked
  <1>2. Init => EnvFollowsLink
    BY DEF Init, EnvFollowsLink, Stale
  <1> QED
    BY <1>1, <1>2 DEF KeysInv

LEMMA KeysStep == LinkingInv /\ KeysInv /\ [Next]_vars => KeysInv'
  <1> SUFFICES ASSUME LinkingInv, KeysInv, [Next]_vars
               PROVE  KeysInv'
    OBVIOUS
  <1>1. CASE ProjectsMove \/ UNCHANGED vars
    BY <1>1, RestKeys
  <1>2. ASSUME NEW p \in People, Step(p)
        PROVE  KeysInv'
    BY <1>2, BeginKeys, QuietKeys, CreateKeys, PreparingKeys, LinkKeys, SetUpKeys, SelectKeys, RefreshKeys, KilledKeys
    DEF Step
  <1> QED
    BY <1>1, <1>2 DEF Next

LEMMA OthersStay ==
  ASSUME TypeOK, NEW r \in People, Step(r), NEW p \in People \ {r}
  PROVE  at'[p] = at[p]
  <1>1. ASSUME NEW place, NEW t, Moves(r, place, t) \/ Go(r, place, t) PROVE at'[p] = at[p]
    BY <1>1 DEF Go, Moves, Set, TypeOK
  <1>2. ASSUME NEW n, Halts(r, n) \/ Stops(r, n) PROVE at'[p] = at[p]
    BY <1>2 DEF Stops, Halts, Set, TypeOK
  <1>3. CASE Begin(r)
    BY <1>2, <1>3 DEF Begin, Set, TypeOK
  <1>4. CASE SignIn(r) \/ Look(r) \/ Get(r)
    BY <1>1, <1>2, <1>4 DEF SignIn, Look, Get
  <1>5. CASE PlaceProject(r)
    BY <1>1, <1>2, <1>5 DEF PlaceProject
  <1>6. CASE Create(r)
    BY <1>1, <1>2, <1>6 DEF Create
  <1>7. CASE Prepare(r) \/ Wait(r)
    BY <1>1, <1>2, <1>7 DEF Prepare, Wait
  <1>8. CASE Previous(r)
    BY <1>1, <1>2, <1>8 DEF Previous, Set, TypeOK
  <1>9. CASE Link(r) \/ SetUp(r) \/ Resolve(r)
    BY <1>1, <1>2, <1>9 DEF Link, SetUp, Resolve
  <1>10. CASE Select(r) \/ Refresh(r)
    BY <1>1, <1>2, <1>10 DEF Select, Refresh
  <1>11. CASE Killed(r)
    BY <1>2, <1>11 DEF Killed
  <1> QED
    BY <1>3, <1>4, <1>5, <1>6, <1>7, <1>8, <1>9, <1>10, <1>11 DEF Step

(***************************************************************************)
(* The theorems.                                                           *)
(***************************************************************************)
\* What each command relies on at each of its places, whatever the others do
\* meanwhile.
THEOREM LinkingSafe == Spec => []LinkingInv
  BY StartSafe, StepsSafe, PTL DEF Spec

\* Nobody deploys a linked project with another one's key without being on the way
\* to the right one, or told the command that writes it: whatever fails, whoever
\* relinks the directory.  A command killed on its way there, and two that relinked
\* the directory at once, leave it so without a word, until the next key is written.
THEOREM EnvIsTheLinkedProjects == Spec => []EnvFollowsLink
  <1>1. LinkingInv /\ KeysInv /\ [Next]_vars => KeysInv'
    BY KeysStep
  <1>2. Spec => []KeysInv
    BY <1>1, KeysStart, LinkingSafe, PTL DEF Spec
  <1>3. KeysInv => EnvFollowsLink
    BY DEF KeysInv
  <1> QED
    BY <1>2, <1>3, PTL

\* Doing as the messages say never makes a second project, whatever fails.
THEOREM OneProjectForEach == Spec => []OneProjectEach
  <1>1. LinkingInv => OneProjectEach
    BY DEF LinkingInv
  <1> QED
    BY <1>1, LinkingSafe, PTL

\* connect takes a directory away from a project that exists only when it was
\* given both the directory and the project, and then names the old project.
THEOREM RelinkAsked == Spec => RelinkedAsAsked
  <1> DEFINE Asks(p) == cmd[p].dir # "none" /\ cmd[p].project # "none" /\ Undo(p) = link[target[p].dir]
  <1>1. ASSUME LinkingInv, [Next]_vars, NEW p \in People, TakesAway(p)
        PROVE  Asks(p)
    <2> DEFINE t == target[p]
    <2>1. /\ PlaceOf(p) /\ ReadOf(p) /\ TypeOK /\ at[p] = "link" /\ at'[p] = "setUp" /\ t \in Target
          /\ t.dir \in Dirs /\ t.project \in Projects
      BY <1>1, Facts, HintTyped DEF Placed, TakesAway
    <2>2. Link(p)
      <3>1. \E r \in People : Step(r)
        BY <1>1, <2>1 DEF Next, vars, job, ProjectsMove
      <3>2. ASSUME NEW r \in People \ {p}, Step(r)
            PROVE  FALSE
        BY <2>1, <3>2, OthersStay
      <3>3. Step(p)
        BY <3>1, <3>2
      <3>4. ~Killed(p)
        BY <2>1 DEF Killed, Halts, Set, TypeOK
      <3> QED
        BY <2>1, <3>3, <3>4 DEF Step, Begin, SignIn, Look, Get, PlaceProject, Create, Prepare, Wait, Previous,
           SetUp, Resolve, Select, Refresh
    <2>3. link'[t.dir] = t.project
      BY <2>1, <2>2, LinkingAssumption DEF Link, WriteLink, Halts, Set, TypeOK
    <2>4. cmd[p].dir # "none" /\ cmd[p].project # "none" /\ t.created = "no"
      BY <1>1, <2>1, <2>3 DEF ReadOf, PlaceOf, Placed, Taken, Target, TakesAway
    <2>5. seen[p] = [dir |-> t.dir, project |-> link[t.dir]]
      BY <1>1, <2>1 DEF ReadOf, TakesAway
    <2>6. Undo(p) = link[t.dir]
      BY <1>1, <2>1, <2>3, <2>4, <2>5, LinkingAssumption DEF Undo, NoLink, TakesAway
    <2> QED
      BY <2>4, <2>6
  <1>2. LinkingInv /\ [Next]_vars => [\A p \in People : TakesAway(p) => Asks(p)]_vars
    BY <1>1
  <1> QED
    BY <1>2, LinkingSafe, PTL DEF Spec, RelinkedAsAsked
=============================================================================
