-------------------------- MODULE GitBindingProofs -------------------------
(***************************************************************************)
(* Proofs about GitBinding, for any number of commands and repositories.   *)
(***************************************************************************)
EXTENDS GitBinding, TLAPS

(***************************************************************************)
(* What the requests leave.                                                *)
(***************************************************************************)
LEMMA RebindType ==
    ASSUME updated \in Nat, NEW b \in Binding \cup {Unbound}, Rebind(b)
    PROVE  binding' \in Binding \cup {Unbound} /\ updated' \in Nat
BY DEF Rebind

LEMMA BindKeepsType ==
    ASSUME GitServerTypeOK, NEW r \in Repos, NEW i \in Installations, NEW root \in Roots,
           NEW branch \in Branches \cup {"unnamed"}, BindRequest(r, i, root, branch)
    PROVE  GitServerTypeOK' /\ Connected(binding')
  <1>1. Bound(r, i, root, branch) \in Binding
    BY GitServerAssumption
       DEF GitServerTypeOK, BindRequest, AcceptsBinding, Bound, Binding, Repository
  <1>2. binding' = Bound(r, i, root, branch)
    BY DEF BindRequest, Rebind
  <1>3. settings' \in Settings
    BY DEF GitServerTypeOK, BindRequest, Settings
  <1>4. Connected(binding')
    BY <1>2, GitServerAssumption DEF Connected, Bound
  <1> QED
    BY <1>1, <1>3, <1>4, RebindType DEF GitServerTypeOK, BindRequest

LEMMA RootKeepsType ==
    ASSUME GitServerTypeOK, NEW root \in Roots, RootRequest(root)
    PROVE  GitServerTypeOK' /\ Connected(binding')
  <1>1. [binding EXCEPT !.root = root] \in Binding
    BY DEF GitServerTypeOK, RootRequest, Connected, Binding, Unbound
  <1>2. binding' = [binding EXCEPT !.root = root]
    BY DEF RootRequest, Rebind
  <1>3. Connected(binding')
    BY <1>1, <1>2, GitServerAssumption DEF Connected, Binding
  <1> QED
    BY <1>1, <1>3, RebindType DEF GitServerTypeOK, RootRequest

LEMMA BranchKeepsType ==
    ASSUME GitServerTypeOK, NEW branch \in Branches \cup {"unnamed"}, BranchRequest(branch)
    PROVE  GitServerTypeOK' /\ Connected(binding')
  <1>1. binding \in Binding
    BY DEF GitServerTypeOK, BranchRequest, Connected, Unbound
  <1> DEFINE b == [binding EXCEPT !.branch = IF branch = "unnamed" THEN repository[binding.repo].default ELSE branch,
                                  !.follows = IF branch = "unnamed" THEN "yes" ELSE "no"]
  <1>2. b \in Binding
    <2>1. branch = "unnamed" => repository[binding.repo].default \in Branches
      BY <1>1 DEF GitServerTypeOK, BranchRequest, Binding, Repository
    <2> QED
      BY <1>1, <2>1 DEF Binding
  <1>3. binding' = b
    BY DEF BranchRequest, Rebind
  <1>4. Connected(binding')
    BY <1>2, <1>3, GitServerAssumption DEF Connected, Binding
  <1> QED
    BY <1>2, <1>3, <1>4 DEF GitServerTypeOK, BranchRequest, Rebind

(***************************************************************************)
(* The invariant holds at first.                                           *)
(***************************************************************************)
LEMMA InitSafe == Init => GitInv
  <1> SUFFICES ASSUME Init
               PROVE  GitInv
    OBVIOUS
  <1>1. UnsavedSettings("on") \in Settings /\ UnsavedSettings("off") \in Settings
    BY GitServerAssumption DEF UnsavedSettings, Settings
  <1>2. settings \in Settings /\ chosen \in Choice /\ SettingsInv
    <2>1. CASE own = "no"
      <3>1. chosen = Unset /\ settings \in {UnsavedSettings("on"), UnsavedSettings("off")}
        BY <2>1 DEF Init, ProjectInit
      <3>2. chosen.frontend = "unset" /\ chosen.appRoot = "" /\ chosen \in Choice
        BY <3>1, GitServerAssumption DEF Unset, Choice
      <3> QED
        BY <1>1, <2>1, <3>1, <3>2 DEF Init, ProjectInit, SettingsInv
    <2>2. CASE own = "yes"
      <3>1. settings \in Settings /\ chosen = settings /\ (settings.frontend = "none" => settings.appRoot = "")
        BY <2>2, <1>1 DEF Init, ProjectInit
      <3>2. chosen \in Choice
        BY <3>1 DEF Settings, Choice
      <3>3. settings = AsChosen
        BY <3>1, GitServerAssumption DEF Settings, AsChosen
      <3>4. chosen.frontend \in {"none", "unset"} => chosen.appRoot = ""
        BY <3>1, GitServerAssumption DEF Settings
      <3> QED
        BY <2>2, <3>1, <3>2, <3>3, <3>4 DEF SettingsInv
    <2> QED
      BY <2>1, <2>2 DEF Init, ProjectInit
  <1>3. at \in [People -> Place]
    BY DEF Init, FirstPlace, Place
  <1>4. TypeOK
    BY <1>1, <1>2, <1>3 DEF Init, ProjectInit, TypeOK, GitServerTypeOK, NoTarget
  <1>5. \A p \in People : PlaceInv(p) /\ AskedInv(p) /\ AgreedInv(p) /\ UnchangedInv(p) /\ HeldInv(p)
    <2> SUFFICES ASSUME NEW p \in People
                 PROVE  PlaceInv(p) /\ AskedInv(p) /\ AgreedInv(p) /\ UnchangedInv(p) /\ HeldInv(p)
      OBVIOUS
    <2>1. cmd[p] \in Command
      BY GitBindingAssumption DEF Init
    <2>2. at[p] = FirstPlace(cmd[p])
      BY DEF Init
    <2>3. \/ cmd[p].kind \in {"export", "cancel"} /\ at[p] = "source"
          \/ cmd[p].kind \in {"root-directory", "production-branch"} /\ at[p] = "write"
          \/ cmd[p].kind \notin {"export", "cancel", "root-directory", "production-branch"} /\ at[p] = "read"
      BY <2>2 DEF FirstPlace
    <2> QED
      BY <2>3 DEF PlaceInv, AskedInv, AgreedInv, UnchangedInv, HeldInv, Confirmed
  <1> QED
    BY <1>2, <1>4, <1>5 DEF GitInv

(***************************************************************************)
(* Each action keeps it.                                                   *)
(***************************************************************************)
PersonInv(p) == PlaceInv(p) /\ AskedInv(p) /\ AgreedInv(p) /\ UnchangedInv(p) /\ HeldInv(p)

\* Who stands by while the project changes is late or sees it as it is.
LEMMA StandsBy ==
    ASSUME GitInv, NEW others \in SUBSET People, NEW q \in others,
           Overtakes(others), at'[q] = at[q], UNCHANGED <<cmd, seen, target, held, agreed>>,
           own = "yes" \/ settings = UnsavedSettings("on") => own' = "yes" \/ settings' = UnsavedSettings("on")
    PROVE  PersonInv(q)'
  <1>1. PersonInv(q)
    BY DEF GitInv, PersonInv
  <1>2. late'[q] = IF \/ at[q] = "write" /\ binding' # binding
                      \/ at[q] = "save" /\ settings' # settings THEN "yes" ELSE late[q]
    BY DEF Overtakes
  <1>3. (PlaceInv(q) /\ AskedInv(q) /\ AgreedInv(q))'
    BY <1>1 DEF PersonInv, PlaceInv, AskedInv, AgreedInv
  <1>4. UnchangedInv(q)' /\ HeldInv(q)'
    BY <1>1, <1>2 DEF PersonInv, UnchangedInv, HeldInv
  <1> QED
    BY <1>3, <1>4 DEF PersonInv

LEMMA LateType ==
    ASSUME TypeOK, NEW others, Overtakes(others)
    PROVE  late' \in [People -> {"yes", "no"}]
BY DEF TypeOK, Overtakes

\* Who is done is asked nothing more.
LEMMA DoneSafe ==
    ASSUME TypeOK, NEW p \in People, Goes(p, "done")
    PROVE  PersonInv(p)' /\ at' \in [People -> Place] /\ \A q \in People \ {p} : at'[q] = at[q]
BY DEF TypeOK, Goes, Place, PersonInv, PlaceInv, AskedInv, AgreedInv, UnchangedInv, HeldInv

LEMMA StopsSafe ==
    ASSUME GitInv, NEW p \in People, Stops(p)
    PROVE  GitInv'
  <1>1. Goes(p, "done") /\ Only(p)
    BY DEF Stops
  <1>2. PersonInv(p)' /\ at' \in [People -> Place] /\ \A q \in People \ {p} : at'[q] = at[q]
    BY <1>1, DoneSafe DEF GitInv
  <1>3. TypeOK' /\ SettingsInv'
    BY <1>1, <1>2 DEF GitInv, Only, gitServerVars, TypeOK, GitServerTypeOK, SettingsInv, AsChosen, Connected
  <1>4. \A q \in People \ {p} : PersonInv(q)'
    BY <1>1, <1>2 DEF GitInv, PersonInv, Only, gitServerVars, PlaceInv, AskedInv, AgreedInv, UnchangedInv, HeldInv
  <1> QED
    BY <1>2, <1>3, <1>4 DEF GitInv, PersonInv

LEMMA ReadSourceSafe ==
    ASSUME GitInv, NEW p \in People, ReadSource(p)
    PROVE  GitInv'
  <1>1. CASE Goes(p, "done")
    BY <1>1, StopsSafe DEF ReadSource, Stops
  <1>2. CASE (cmd[p].kind = "cancel" /\ Goes(p, "ask")) \/ (cmd[p].kind = "export" /\ Goes(p, "read"))
    <2>1. TypeOK' /\ SettingsInv'
      BY <1>2 DEF ReadSource, GitInv, Goes, Place, Only, gitServerVars, TypeOK, GitServerTypeOK, SettingsInv,
                  AsChosen, Connected
    <2>2. \A q \in People : q # p => at'[q] = at[q]
      BY <1>2 DEF GitInv, TypeOK, Goes
    <2>3. \A q \in People \ {p} : PersonInv(q)'
      BY <2>2 DEF ReadSource, GitInv, PersonInv, Only, gitServerVars, PlaceInv, AskedInv, AgreedInv, UnchangedInv,
                  HeldInv
    <2>4. (at'[p] = "ask" /\ cmd'[p].kind = "cancel") \/ (at'[p] = "read" /\ cmd'[p].kind = "export")
      BY <1>2 DEF ReadSource, GitInv, TypeOK, Goes, Only
    <2>5. PersonInv(p)'
      BY <2>4 DEF PersonInv, PlaceInv, AskedInv, AgreedInv, UnchangedInv, HeldInv
    <2> QED
      BY <2>1, <2>3, <2>5 DEF GitInv, PersonInv
  <1> QED
    BY <1>1, <1>2 DEF ReadSource

LEMMA ReadBindingSafe ==
    ASSUME GitInv, NEW p \in People, ReadBinding(p)
    PROVE  GitInv'
  <1>1. cmd[p] \in Command
    BY GitBindingAssumption DEF GitInv, TypeOK
  <1>2. \/ cmd[p].kind = "connect" /\ at'[p] = "resolve"
        \/ Connected(binding) /\ cmd[p].kind \in {"disconnect", "export"} /\ at'[p] = "ask"
        \/ Connected(binding) /\ cmd[p].kind \notin {"connect", "disconnect", "export"} /\ at'[p] = "settings"
        \/ at'[p] = "done"
    BY <1>1 DEF ReadBinding, GitInv, TypeOK, Goes, AfterRead, Command
  <1>3. seen'[p].binding = binding
    BY DEF ReadBinding, GitInv, TypeOK
  <1>4. \A q \in People \ {p} : at'[q] = at[q] /\ seen'[q] = seen[q]
    BY DEF ReadBinding, GitInv, TypeOK, Goes
  <1>5. TypeOK' /\ SettingsInv'
    BY <1>2 DEF ReadBinding, GitInv, Goes, Place, gitServerVars, TypeOK, GitServerTypeOK, SettingsInv, AsChosen,
                Connected
  <1>6. \A q \in People \ {p} : PersonInv(q)'
    BY <1>4 DEF ReadBinding, GitInv, PersonInv, gitServerVars, PlaceInv, AskedInv, AgreedInv, UnchangedInv, HeldInv
  <1>7. at[p] = "read" /\ UNCHANGED <<cmd, settings, own, binding>>
    BY DEF ReadBinding, gitServerVars
  <1>8. own = "yes" \/ ~Connected(binding) \/ settings = UnsavedSettings("on")
    BY DEF GitInv, SettingsInv, TypeOK, GitServerTypeOK
  <1>9. at'[p] = "settings" => cmd[p].kind \in {"auto-deploy", "functions", "frontend"}
    BY <1>1, <1>2, <1>7 DEF GitInv, PlaceInv, Command, ReadBinding, Goes, TypeOK, AfterRead
  <1>10. PersonInv(p)'
    BY <1>2, <1>3, <1>7, <1>8, <1>9
       DEF PersonInv, PlaceInv, AskedInv, AgreedInv, UnchangedInv, HeldInv, Connected, Confirmed
  <1> QED
    BY <1>5, <1>6, <1>10 DEF GitInv, PersonInv

LEMMA ResolveSafe ==
    ASSUME GitInv, NEW p \in People, Resolve(p)
    PROVE  GitInv'
  <1>r. PICK r \in Repos : \E i \in repository[r].installations :
          LET t == [repo |-> r, name |-> repository[r].name, installation |-> i, default |-> repository[r].default]
          IN  target' = [target EXCEPT ![p] = t] /\ Goes(p, AfterResolve(cmd[p], seen[p].binding, t))
    BY DEF Resolve
  <1>1. PICK i \in repository[r].installations :
          LET t == [repo |-> r, name |-> repository[r].name, installation |-> i, default |-> repository[r].default]
          IN  target' = [target EXCEPT ![p] = t] /\ Goes(p, AfterResolve(cmd[p], seen[p].binding, t))
    BY <1>r
  <1> DEFINE t == [repo |-> r, name |-> repository[r].name, installation |-> i, default |-> repository[r].default]
  <1>2. t \in Target /\ t # NoTarget
    BY GitServerAssumption DEF GitInv, TypeOK, GitServerTypeOK, Repository, Target, NoTarget
  <1>3. target'[p] = t /\ at'[p] = AfterResolve(cmd[p], seen[p].binding, t)
    BY <1>1 DEF GitInv, TypeOK, Goes
  <1> HIDE DEF t
  <1>4. \A q \in People \ {p} : at'[q] = at[q] /\ target'[q] = target[q]
    BY <1>1 DEF GitInv, TypeOK, Goes
  <1>5. \/ at'[p] = "done"
        \/ /\ at'[p] \in {"ask", "recheck"}
           /\ ~NothingToDo(cmd[p], seen[p].binding, t) /\ ~BranchRefused(cmd[p], seen[p].binding, t)
           /\ at'[p] = "recheck" => ~Replacing(seen[p].binding, t)
    BY <1>3 DEF AfterResolve
  <1>6. cmd[p].kind = "connect" /\ UNCHANGED <<cmd, seen, agreed>>
    BY DEF Resolve, GitInv, PlaceInv
  <1>7. TypeOK' /\ SettingsInv'
    <2>1. at' \in [People -> Place] /\ target' \in [People -> Target \cup {NoTarget}]
      BY <1>1, <1>2, <1>3, <1>5 DEF GitInv, TypeOK, Goes, Place, t
    <2> QED
      BY <2>1 DEF Resolve, GitInv, gitServerVars, TypeOK, GitServerTypeOK, SettingsInv, AsChosen, Connected
  <1>8. \A q \in People \ {p} : PersonInv(q)'
    BY <1>4 DEF Resolve, GitInv, PersonInv, gitServerVars, PlaceInv, AskedInv, AgreedInv, UnchangedInv, HeldInv
  <1>9. PersonInv(p)'
    BY <1>2, <1>3, <1>5, <1>6
       DEF PersonInv, PlaceInv, AskedInv, AgreedInv, UnchangedInv, HeldInv, Confirmed
  <1> QED
    BY <1>7, <1>8, <1>9 DEF GitInv, PersonInv

LEMMA AgreeSafe ==
    ASSUME GitInv, NEW p \in People, Agree(p)
    PROVE  GitInv'
  <1>1. /\ at[p] = "ask" /\ UNCHANGED <<cmd, seen, target, settings, own, late, held>>
        /\ agreed'[p] = seen[p].binding.repo
        /\ at'[p] = IF cmd[p].kind = "cancel" THEN "write" ELSE "recheck"
    BY DEF Agree, GitInv, TypeOK, Goes, gitServerVars
  <1>2. \A q \in People \ {p} : at'[q] = at[q] /\ agreed'[q] = agreed[q]
    BY DEF Agree, GitInv, TypeOK, Goes
  <1>3. seen[p].binding.repo \in Repos \cup {"none"}
    BY DEF GitInv, TypeOK, Binding, Unbound
  <1>4. TypeOK' /\ SettingsInv'
    <2>1. at' \in [People -> Place] /\ agreed' \in [People -> Repos \cup {"none"}]
      BY <1>3 DEF Agree, GitInv, TypeOK, Goes, Place
    <2> QED
      BY <2>1 DEF Agree, GitInv, gitServerVars, TypeOK, GitServerTypeOK, SettingsInv, AsChosen, Connected
  <1>5. \A q \in People \ {p} : PersonInv(q)'
    BY <1>2 DEF Agree, GitInv, PersonInv, gitServerVars, PlaceInv, AskedInv, AgreedInv, UnchangedInv, HeldInv
  <1>6. PlaceInv(p) /\ AskedInv(p)
    BY DEF GitInv
  <1>7. PersonInv(p)'
    BY <1>1, <1>6 DEF PersonInv, PlaceInv, AskedInv, AgreedInv, UnchangedInv, HeldInv, Confirmed
  <1> QED
    BY <1>4, <1>5, <1>7 DEF GitInv, PersonInv

LEMMA ConfirmUnchangedSafe ==
    ASSUME GitInv, NEW p \in People, ConfirmUnchanged(p)
    PROVE  GitInv'
  <1>1. binding = seen[p].binding
    <2>1. seen[p] \in [binding : Binding \cup {Unbound}, updated : Nat] /\ binding \in Binding \cup {Unbound}
      BY DEF GitInv, TypeOK, GitServerTypeOK
    <2>2. \A b \in Binding \cup {Unbound} : ~Connected(b) => b = Unbound
      BY GitServerAssumption DEF Binding, Connected
    <2> QED
      BY <2>1, <2>2 DEF ConfirmUnchanged, SameBinding
  <1>2. at[p] = "recheck" /\ at'[p] = "write" /\ \A q \in People \ {p} : at'[q] = at[q]
    BY DEF ConfirmUnchanged, GitInv, TypeOK, Goes
  <1>3. TypeOK' /\ SettingsInv'
    BY DEF ConfirmUnchanged, GitInv, Goes, Place, Only, gitServerVars, TypeOK, GitServerTypeOK, SettingsInv,
           AsChosen, Connected
  <1>4. \A q \in People \ {p} : PersonInv(q)'
    BY <1>2 DEF ConfirmUnchanged, GitInv, PersonInv, Only, gitServerVars, PlaceInv, AskedInv, AgreedInv,
                UnchangedInv, HeldInv
  <1>5. PlaceInv(p) /\ AskedInv(p) /\ AgreedInv(p)
    BY DEF GitInv
  <1>6. UNCHANGED <<binding, cmd, seen, target, agreed>>
    BY DEF ConfirmUnchanged, Only, gitServerVars
  <1>7. PersonInv(p)'
    BY <1>1, <1>2, <1>5, <1>6
       DEF PersonInv, PlaceInv, AskedInv, AgreedInv, UnchangedInv, HeldInv, Confirmed
  <1> QED
    BY <1>3, <1>4, <1>7 DEF GitInv, PersonInv

(***************************************************************************)
(* A connect carries what belongs in a connection, and what was read of it *)
(* unless something else was asked for.                                    *)
(***************************************************************************)
LEMMA ConnectRequests ==
    ASSUME GitInv, NEW p \in People, at[p] = "write", cmd[p].kind = "connect",
           ConnectRequest(cmd[p], seen[p].binding, target[p])
    PROVE  \/ /\ Same(seen[p].binding, target[p]) /\ cmd[p].root \in Roots
              /\ RootRequest(cmd[p].root)
           \/ LET root == RootDirectoryFor(cmd[p], seen[p].binding, target[p])
                  branch == BranchFor(cmd[p], seen[p].binding, target[p])
              IN  /\ target[p].repo \in Repos /\ target[p].installation \in Installations
                  /\ root \in Roots /\ branch \in Branches \cup {"unnamed"}
                  /\ BindRequest(target[p].repo, target[p].installation, root, branch)
  <1> DEFINE b == seen[p].binding
             t == target[p]
  <1>1. cmd[p] \in Command /\ b \in Binding \cup {Unbound} /\ t \in Target /\ ~NothingToDo(cmd[p], b, t)
    BY GitBindingAssumption DEF GitInv, AskedInv, TypeOK
  <1>2. CASE SameRepositoryBinding(b, t)
    BY <1>1, <1>2 DEF ConnectRequest, SameRepositoryBinding, NothingToDo, Command
  <1>3. CASE ~SameRepositoryBinding(b, t)
    <2>1. Same(b, t) => b \in Binding
      BY <1>1 DEF Same, Connected, Unbound
    <2>2. RootDirectoryFor(cmd[p], b, t) \in Roots
      BY <1>1, <2>1, GitServerAssumption DEF RootDirectoryFor, Binding, Command
    <2>3. BranchFor(cmd[p], b, t) \in Branches \cup {"unnamed"}
      BY <1>1, <2>1 DEF BranchFor, Binding, Command
    <2> QED
      BY <1>1, <1>3, <2>2, <2>3 DEF ConnectRequest, Target
  <1> QED
    BY <1>2, <1>3

LEMMA BindKeepsSettings ==
    ASSUME GitInv, UNCHANGED <<chosen, raced>>, NEW r, NEW i, NEW root, NEW branch, BindRequest(r, i, root, branch)
    PROVE  SettingsInv' /\ (own' = "yes" \/ settings' = UnsavedSettings("on"))
  <1>1. own' = own /\ own \in {"yes", "no"}
    BY DEF BindRequest, GitInv, TypeOK, GitServerTypeOK
  <1>2. CASE own = "yes"
    <2>1. settings' = settings
      BY <1>2 DEF BindRequest
    <2> QED
      BY <1>1, <1>2, <2>1 DEF GitInv, SettingsInv, AsChosen
  <1>3. CASE own = "no"
    <2>1. settings' = [settings EXCEPT !.auto = "on", !.functions = "on"]
      BY <1>3 DEF BindRequest
    <2>2. settings \in {UnsavedSettings("on"), UnsavedSettings("off")}
      BY <1>3 DEF GitInv, SettingsInv
    <2>3. settings' = UnsavedSettings("on")
      <3>1. PICK v \in {"on", "off"} :
              settings = [auto |-> v, functions |-> v, frontend |-> "none", appRoot |-> ""]
        BY <2>2 DEF UnsavedSettings
      <3>2. settings' = [auto |-> "on", functions |-> "on", frontend |-> "none", appRoot |-> ""]
        BY <2>1, <3>1
      <3> QED
        BY <3>2 DEF UnsavedSettings
    <2>4. chosen = Unset /\ (chosen.frontend \in {"none", "unset"} => chosen.appRoot = "")
      BY <1>3 DEF GitInv, SettingsInv
    <2> QED
      BY <1>1, <1>3, <2>3, <2>4 DEF SettingsInv
  <1> QED
    BY <1>1, <1>2, <1>3

LEMMA OthersKeepSettings ==
    ASSUME GitInv, UNCHANGED <<settings, own, chosen, raced>>, Connected(binding') => Connected(binding)
    PROVE  SettingsInv'
BY DEF GitInv, SettingsInv, AsChosen

\* What any request of a command at its write leaves.
LEMMA RequestSafe ==
    ASSUME GitInv, NEW p \in People, at[p] = "write", Request(p), UNCHANGED <<chosen, raced>>
    PROVE  /\ GitServerTypeOK' /\ SettingsInv'
           /\ own = "yes" \/ settings = UnsavedSettings("on") => own' = "yes" \/ settings' = UnsavedSettings("on")
  <1>1. GitServerTypeOK
    BY DEF GitInv, TypeOK
  <1>2. cmd[p] \in Command /\ (cmd[p].kind \in {"root-directory", "frontend"} => cmd[p].root \in Roots)
    BY GitBindingAssumption DEF GitInv, TypeOK
  <1>3. cmd[p].kind \in {"connect", "disconnect", "export", "cancel", "root-directory", "production-branch"}
    BY DEF GitInv, PlaceInv, Confirmed
  <1>r. ASSUME NEW root \in Roots, RootRequest(root)
        PROVE  GitServerTypeOK' /\ SettingsInv' /\ UNCHANGED <<settings, own>>
    <2>1. Connected(binding) /\ UNCHANGED <<settings, own>>
      BY <1>r DEF RootRequest
    <2> QED
      BY <1>1, <1>r, <2>1, RootKeepsType, OthersKeepSettings
  <1>4. CASE cmd[p].kind = "connect"
    <2>1. ConnectRequest(cmd[p], seen[p].binding, target[p])
      BY <1>4 DEF Request
    <2>2. CASE cmd[p].root \in Roots /\ RootRequest(cmd[p].root)
      BY <2>2, <1>r
    <2>3. CASE \E r \in Repos, i \in Installations, root \in Roots, branch \in Branches \cup {"unnamed"} :
                 BindRequest(r, i, root, branch)
      BY <2>3, <1>1, BindKeepsType, BindKeepsSettings
    <2> QED
      BY <1>4, <2>1, <2>2, <2>3, ConnectRequests
  <1>5. CASE cmd[p].kind = "disconnect"
    <2>1. UnbindRequest
      BY <1>5 DEF Request
    <2>2. binding' = Unbound /\ updated' \in Nat /\ UNCHANGED <<settings, own, source, repository, events>>
      BY <1>1, <2>1 DEF UnbindRequest, Rebind, GitServerTypeOK
    <2>3. Connected(binding)
      BY <2>1 DEF UnbindRequest
    <2> QED
      BY <1>1, <2>2, <2>3, OthersKeepSettings DEF GitServerTypeOK
  <1>6. CASE cmd[p].kind = "root-directory"
    BY <1>2, <1>6, <1>r DEF Request
  <1>7. CASE cmd[p].kind = "production-branch"
    <2>1. BranchRequest(cmd[p].branch) /\ cmd[p].branch \in Branches \cup {"unnamed"}
      BY <1>2, <1>7 DEF Request, Command
    <2>2. Connected(binding) /\ UNCHANGED <<settings, own>>
      BY <2>1 DEF BranchRequest
    <2> QED
      BY <1>1, <2>1, <2>2, BranchKeepsType, OthersKeepSettings
  <1>8. CASE cmd[p].kind = "export" \/ cmd[p].kind = "cancel"
    <2>1. ExportRequest(seen[p].binding.branch) \/ CancelRequest
      BY <1>8 DEF Request
    <2>2. source' \in Source /\ UNCHANGED <<binding, updated, settings, own, repository, events>>
      BY <1>1, <2>1 DEF ExportRequest, CancelRequest, GitServerTypeOK, Source
    <2> QED
      BY <1>1, <2>2, OthersKeepSettings DEF GitServerTypeOK, Connected
  <1> QED
    BY <1>3, <1>4, <1>5, <1>6, <1>7, <1>8

LEMMA WriteSafe ==
    ASSUME GitInv, NEW p \in People, Write(p)
    PROVE  GitInv'
  <1>1. /\ at[p] = "write" /\ Request(p) /\ Goes(p, "done") /\ Overtakes(People \ {p})
        /\ UNCHANGED <<cmd, seen, target, held, agreed, chosen, raced>>
    BY DEF Write
  <1>2. PersonInv(p)' /\ at' \in [People -> Place] /\ \A q \in People \ {p} : at'[q] = at[q]
    BY <1>1, DoneSafe DEF GitInv
  <1>3. late' \in [People -> {"yes", "no"}]
    BY <1>1, LateType DEF GitInv
  <1>4. TypeOK' /\ SettingsInv'
    BY <1>1, <1>2, <1>3, RequestSafe DEF GitInv, TypeOK
  <1>5. \A q \in People \ {p} : PersonInv(q)'
    BY <1>1, <1>2, RequestSafe, StandsBy
  <1> QED
    BY <1>2, <1>4, <1>5 DEF GitInv, PersonInv

LEMMA ReadSettingsSafe ==
    ASSUME GitInv, NEW p \in People, ReadSettings(p)
    PROVE  GitInv'
  <1>1. at[p] = "settings" /\ at'[p] = "save" /\ held'[p] = settings /\ UNCHANGED <<cmd, settings, own>>
    BY DEF ReadSettings, GitInv, TypeOK, Goes, gitServerVars
  <1>2. \A q \in People \ {p} : at'[q] = at[q] /\ held'[q] = held[q]
    BY DEF ReadSettings, GitInv, TypeOK, Goes
  <1>3. TypeOK' /\ SettingsInv'
    BY DEF ReadSettings, GitInv, Goes, Place, gitServerVars, TypeOK, GitServerTypeOK, SettingsInv, AsChosen,
           Connected
  <1>4. \A q \in People \ {p} : PersonInv(q)'
    BY <1>2 DEF ReadSettings, GitInv, PersonInv, gitServerVars, PlaceInv, AskedInv, AgreedInv, UnchangedInv, HeldInv
  <1>5. PlaceInv(p) /\ HeldInv(p)
    BY DEF GitInv
  <1>6. PersonInv(p)'
    BY <1>1, <1>5 DEF PersonInv, PlaceInv, AskedInv, AgreedInv, UnchangedInv, HeldInv
  <1> QED
    BY <1>3, <1>4, <1>6 DEF GitInv, PersonInv

(***************************************************************************)
(* A setting saved over settings that are as chosen leaves them as chosen. *)
(***************************************************************************)
LEMMA ChangesAsChosen ==
    ASSUME GitInv, NEW c \in Command, c.kind = "frontend" => c.root \in Roots,
           c.kind \in {"auto-deploy", "functions", "frontend"}, settings = AsChosen,
           chosen' = Changed(c, chosen)
    PROVE  Changed(c, SettingsRequest(settings)) = AsChosen'
  <1>1. /\ chosen \in Choice /\ settings \in Settings
        /\ chosen.frontend \in {"none", "unset"} => chosen.appRoot = ""
    BY DEF GitInv, TypeOK, GitServerTypeOK, SettingsInv
  <1>f. /\ settings.auto = IF chosen.auto = "unset" THEN "on" ELSE chosen.auto
        /\ settings.functions = IF chosen.functions = "unset" THEN "on" ELSE chosen.functions
        /\ settings.frontend = IF chosen.frontend = "unset" THEN "none" ELSE chosen.frontend
        /\ settings.appRoot = chosen.appRoot
    BY DEF AsChosen
  <1>2. settings.frontend = "none" => settings.appRoot = ""
    BY <1>1, <1>f DEF Choice
  <1>3. SettingsRequest(settings) = settings
    <2>1. settings = [settings EXCEPT !.appRoot = settings.appRoot]
      BY <1>1 DEF Settings
    <2> QED
      BY <1>2, <2>1 DEF SettingsRequest
  <1>4. CASE c.kind = "auto-deploy"
    <2>1. Changed(c, settings) = [settings EXCEPT !.auto = c.on] /\ chosen' = [chosen EXCEPT !.auto = c.on]
      BY <1>4 DEF Changed
    <2>2. c.on # "unset"
      BY DEF Command
    <2>3. Changed(c, settings) = [auto |-> c.on, functions |-> settings.functions, frontend |-> settings.frontend,
                                  appRoot |-> settings.appRoot]
      BY <1>1, <2>1 DEF Settings
    <2>4. /\ chosen'.auto = c.on /\ chosen'.functions = chosen.functions
          /\ chosen'.frontend = chosen.frontend /\ chosen'.appRoot = chosen.appRoot
      BY <1>1, <2>1 DEF Choice
    <2> QED
      BY <1>f, <1>3, <2>2, <2>3, <2>4 DEF AsChosen
  <1>5. CASE c.kind = "functions"
    <2>1. Changed(c, settings) = [settings EXCEPT !.functions = c.on] /\ chosen' = [chosen EXCEPT !.functions = c.on]
      BY <1>5 DEF Changed
    <2>2. c.on # "unset"
      BY DEF Command
    <2>3. Changed(c, settings) = [auto |-> settings.auto, functions |-> c.on, frontend |-> settings.frontend,
                                  appRoot |-> settings.appRoot]
      BY <1>1, <2>1 DEF Settings
    <2>4. /\ chosen'.auto = chosen.auto /\ chosen'.functions = c.on
          /\ chosen'.frontend = chosen.frontend /\ chosen'.appRoot = chosen.appRoot
      BY <1>1, <2>1 DEF Choice
    <2> QED
      BY <1>f, <1>3, <2>2, <2>3, <2>4 DEF AsChosen
  <1>6. CASE c.kind = "frontend"
    <2> DEFINE root == IF c.frontend = "none" THEN "" ELSE c.root
    <2>1. /\ Changed(c, settings) = [settings EXCEPT !.frontend = c.frontend, !.appRoot = root]
          /\ chosen' = [chosen EXCEPT !.frontend = c.frontend, !.appRoot = root]
      BY <1>6 DEF Changed
    <2>2. c.frontend # "unset"
      BY GitServerAssumption DEF Command
    <2> HIDE DEF root
    <2>3. Changed(c, settings) = [auto |-> settings.auto, functions |-> settings.functions,
                                  frontend |-> c.frontend, appRoot |-> root]
      BY <1>1, <2>1 DEF Settings
    <2>4. /\ chosen'.auto = chosen.auto /\ chosen'.functions = chosen.functions
          /\ chosen'.frontend = c.frontend /\ chosen'.appRoot = root
      BY <1>1, <2>1 DEF Choice
    <2> QED
      BY <1>f, <1>3, <2>2, <2>3, <2>4 DEF AsChosen
  <1> QED
    BY <1>4, <1>5, <1>6

LEMMA ChangeDeploySettingsSafe ==
    ASSUME GitInv, NEW p \in People, ChangeDeploySettings(p)
    PROVE  GitInv'
  <1> DEFINE wanted == Changed(cmd[p], SettingsRequest(held[p]))
  <1>1. /\ at[p] = "save" /\ SaveRequest(wanted) /\ chosen' = Changed(cmd[p], chosen)
        /\ raced' = IF late[p] = "yes" THEN "yes" ELSE raced
        /\ Goes(p, "done") /\ Overtakes(People \ {p}) /\ UNCHANGED <<cmd, seen, target, held, agreed>>
    BY DEF ChangeDeploySettings
  <1>2. /\ cmd[p] \in Command /\ cmd[p].kind \in {"auto-deploy", "functions", "frontend"}
        /\ cmd[p].kind = "frontend" => cmd[p].root \in Roots
    BY <1>1, GitBindingAssumption DEF GitInv, TypeOK, PlaceInv
  <1>3. PersonInv(p)' /\ at' \in [People -> Place] /\ \A q \in People \ {p} : at'[q] = at[q]
    BY <1>1, DoneSafe DEF GitInv
  <1>4. late' \in [People -> {"yes", "no"}] /\ raced' \in {"yes", "no"}
    BY <1>1, LateType DEF GitInv, TypeOK
  <1>5. wanted \in Settings
    <2>1. SettingsRequest(held[p]) \in Settings
      BY GitServerAssumption DEF GitInv, TypeOK, SettingsRequest, Settings
    <2> QED
      BY <1>2, <2>1, GitServerAssumption DEF Changed, Settings, Command
  <1>6. chosen' \in Choice
    BY <1>1, <1>2, GitServerAssumption DEF GitInv, TypeOK, Changed, Choice, Command
  <1>7. settings' = wanted /\ own' = "yes" /\ UNCHANGED <<binding, updated, source, repository, events>>
    BY <1>1 DEF SaveRequest
  <1>8. TypeOK'
    BY <1>1, <1>3, <1>4, <1>5, <1>6, <1>7 DEF GitInv, TypeOK, GitServerTypeOK
  <1>9. raced' = "no" => settings' = AsChosen'
    <2>1. SUFFICES ASSUME raced' = "no"
                   PROVE  settings' = AsChosen'
      OBVIOUS
    <2>2. late[p] = "no" /\ raced = "no"
      BY <1>1, <2>1 DEF GitInv, TypeOK
    <2>3. held[p] = settings /\ (own = "yes" \/ settings = UnsavedSettings("on"))
      BY <1>1, <2>2 DEF GitInv, HeldInv
    <2>4. settings = AsChosen
      <3>1. CASE own = "yes"
        BY <2>2, <3>1 DEF GitInv, SettingsInv
      <3>2. CASE own # "yes"
        <4>1. chosen = Unset /\ settings = UnsavedSettings("on")
          BY <2>3, <3>2 DEF GitInv, SettingsInv, TypeOK, GitServerTypeOK
        <4> QED
          BY <4>1 DEF AsChosen, Unset, UnsavedSettings
      <3> QED
        BY <3>1, <3>2
    <2> QED
      BY <1>1, <1>2, <1>7, <2>3, <2>4, ChangesAsChosen
  <1>10. chosen'.frontend \in {"none", "unset"} => chosen'.appRoot = ""
    <2>1. chosen \in Choice /\ (chosen.frontend \in {"none", "unset"} => chosen.appRoot = "")
      BY DEF GitInv, TypeOK, SettingsInv
    <2> QED
      BY <1>1, <1>2, <2>1, GitServerAssumption DEF Changed, Choice, Command
  <1>11. SettingsInv'
    BY <1>7, <1>9, <1>10 DEF SettingsInv
  <1>12. \A q \in People \ {p} : PersonInv(q)'
    BY <1>1, <1>3, <1>7, StandsBy
  <1> QED
    BY <1>3, <1>8, <1>11, <1>12 DEF GitInv, PersonInv

LEMMA MovesSafe ==
    ASSUME GitInv, Moves
    PROVE  GitInv'
  <1>1. /\ GitHubMoves \/ HandsOver
        /\ Overtakes(People) /\ UNCHANGED <<cmd, at, seen, target, held, agreed, chosen, raced>>
    BY DEF Moves
  <1>2. GitServerTypeOK /\ late' \in [People -> {"yes", "no"}]
    BY <1>1, LateType DEF GitInv, TypeOK
  <1>3. GitServerTypeOK' /\ UNCHANGED <<settings, own>> /\ (Connected(binding') => Connected(binding))
    <2>1. CASE HandsOver
      BY <1>2, <2>1 DEF HandsOver, GitServerTypeOK, Source, Connected
    <2>2. CASE GitHubMoves
      <3>1. PICK r \in Repos : DefaultMoves(r) \/ (UNCHANGED <<binding, updated>> /\ (Renamed(r) \/ Reinstalled(r)))
        BY <2>2 DEF GitHubMoves
      <3>2. events' \in Nat /\ UNCHANGED <<settings, own, source>>
        BY <1>2, <2>2 DEF GitHubMoves, GitServerTypeOK
      <3>3. repository' \in [Repos -> Repository]
        <4>1. PICK now \in Repository : repository' = [repository EXCEPT ![r] = now]
          <5>1. repository[r] \in Repository
            BY <1>2 DEF GitServerTypeOK
          <5>2. CASE \E name \in Names : repository' = [repository EXCEPT ![r].name = name]
            BY <5>1, <5>2 DEF Repository
          <5>3. CASE \E i \in Installations : repository' = [repository EXCEPT ![r].installations = {i}]
            <6>1. PICK i \in Installations : repository' = [repository EXCEPT ![r].installations = {i}]
              BY <5>3
            <6>2. [repository[r] EXCEPT !.installations = {i}] \in Repository
              BY <5>1 DEF Repository
            <6> QED
              BY <6>1, <6>2
          <5>4. CASE \E default \in Branches : repository' = [repository EXCEPT ![r].default = default]
            BY <5>1, <5>4 DEF Repository
          <5> QED
            BY <3>1, <5>2, <5>3, <5>4 DEF DefaultMoves, Renamed, Reinstalled
        <4> QED
          BY <1>2, <4>1 DEF GitServerTypeOK
      <3>4. CASE UNCHANGED <<binding, updated>>
        BY <1>2, <3>2, <3>3, <3>4 DEF GitServerTypeOK, Connected
      <3>5. CASE \E default \in Branches : binding.repo = r /\ Rebind([binding EXCEPT !.branch = default])
        <4>1. PICK default \in Branches : binding.repo = r /\ Rebind([binding EXCEPT !.branch = default])
          BY <3>5
        <4>2. binding \in Binding
          <5>1. binding.repo # "none" /\ binding \in Binding \cup {Unbound}
            BY <1>2, <4>1, GitServerAssumption DEF GitServerTypeOK
          <5> QED
            BY <5>1 DEF Unbound
        <4>3. [binding EXCEPT !.branch = default] \in Binding
          BY <4>2 DEF Binding
        <4>4. Connected(binding)
          BY <4>2, GitServerAssumption DEF Binding, Connected
        <4> QED
          BY <1>2, <3>2, <3>3, <4>1, <4>3, <4>4, RebindType DEF GitServerTypeOK
      <3> QED
        BY <3>1, <3>4, <3>5 DEF DefaultMoves
    <2> QED
      BY <1>1, <2>1, <2>2
  <1>4. TypeOK' /\ SettingsInv'
    BY <1>1, <1>2, <1>3, OthersKeepSettings DEF GitInv, TypeOK
  <1>5. \A q \in People : PersonInv(q)'
    BY <1>1, <1>3, StandsBy
  <1> QED
    BY <1>4, <1>5 DEF GitInv, PersonInv

(***************************************************************************)
(* The theorems.                                                           *)
(***************************************************************************)
LEMMA NextSafe == GitInv /\ [Next]_gitVars => GitInv'
  <1> SUFFICES ASSUME GitInv, [Next]_gitVars
               PROVE  GitInv'
    OBVIOUS
  <1>1. CASE Moves
    BY <1>1, MovesSafe
  <1>2. ASSUME NEW p \in People, Step(p)
        PROVE  GitInv'
    <2>1. CASE GivesUp(p)
      BY <2>1, StopsSafe DEF GivesUp
    <2> QED
      BY <1>2, <2>1, ReadSourceSafe, ReadBindingSafe, ResolveSafe, AgreeSafe, ConfirmUnchangedSafe, WriteSafe,
         ReadSettingsSafe, ChangeDeploySettingsSafe DEF Step
  <1>3. CASE UNCHANGED gitVars
    BY <1>3 DEF gitVars, gitServerVars, peopleVars, GitInv, TypeOK, GitServerTypeOK, SettingsInv, AsChosen, Connected,
                PlaceInv, AskedInv, AgreedInv, UnchangedInv, HeldInv
  <1> QED
    BY <1>1, <1>2, <1>3 DEF Next

\* Each command knows what it asked about, and whether the project has moved
\* since it last looked.
THEOREM GitInvHolds == Spec => []GitInv
  BY InitSafe, NextSafe, PTL DEF Spec

\* A connected project deploys what people last chose, unless a setting was
\* saved over a change made between its two requests.
THEOREM Chosen == Spec => []SettingsAsChosen
  <1>1. GitInv => SettingsAsChosen
    <2> SUFFICES ASSUME GitInv, Connected(binding), raced = "no"
                 PROVE  settings = AsChosen
      BY DEF SettingsAsChosen
    <2>1. CASE own = "yes"
      BY <2>1 DEF GitInv, SettingsInv
    <2>2. CASE own # "yes"
      <3>1. chosen = Unset /\ settings = UnsavedSettings("on")
        BY <2>2 DEF GitInv, SettingsInv, TypeOK, GitServerTypeOK
      <3> QED
        BY <3>1 DEF AsChosen, Unset, UnsavedSettings
    <2> QED
      BY <2>1, <2>2
  <1> QED
    BY <1>1, GitInvHolds, PTL

\* A command at its write either makes its request or gives up.
LEMMA WritesRequest ==
    ASSUME GitInv, Next, NEW p \in People, Writes(p)
    PROVE  (Request(p) /\ UNCHANGED <<cmd, seen, agreed>>) \/ UNCHANGED <<binding, source>>
  <1>1. at[p] = "write" /\ at'[p] = "done" /\ at \in [People -> Place]
    BY DEF Writes, GitInv, TypeOK
  <1>2. ~Moves
    BY <1>1 DEF Moves
  <1>3. PICK q \in People : Step(q)
    BY <1>2 DEF Next
  <1>4. q = p
    BY <1>1, <1>3 DEF Step, ReadSource, ReadBinding, Resolve, Agree, ConfirmUnchanged, Write, ReadSettings,
                      ChangeDeploySettings, GivesUp, Stops, Goes
  <1>5. Write(p) \/ GivesUp(p)
    BY <1>1, <1>3, <1>4 DEF Step, ReadSource, ReadBinding, Resolve, Agree, ConfirmUnchanged, ReadSettings,
                            ChangeDeploySettings
  <1> QED
    BY <1>5 DEF Write, GivesUp, Stops, Only, gitServerVars

\* A repository is replaced, disconnected or exported to only as agreed.
THEOREM Replaced == Spec => ReplacedAsAgreed
  <1> DEFINE Fact(p) == /\ Connected(binding) /\ binding'.repo # binding.repo => agreed[p] = binding.repo
                        /\ cmd[p].kind = "export" /\ source' # source =>
                             agreed[p] = binding.repo /\ binding = seen[p].binding
  <1>1. ASSUME GitInv, [Next]_gitVars
        PROVE  [\A p \in People : Writes(p) => Fact(p)]_gitVars
    <2> SUFFICES ASSUME Next, NEW p \in People, Writes(p)
                 PROVE  Fact(p)
      BY <1>1
    <2>1. CASE UNCHANGED <<binding, source>>
      BY <2>1
    <2>2. CASE Request(p) /\ UNCHANGED <<cmd, seen, agreed>>
      <3>1. at[p] = "write" /\ late[p] = "no"
        BY DEF Writes
      <3>2. PlaceInv(p) /\ AskedInv(p) /\ AgreedInv(p) /\ UnchangedInv(p)
        BY <1>1 DEF GitInv
      <3>3. cmd[p].kind \in Confirmed => binding = seen[p].binding
        BY <3>1, <3>2 DEF UnchangedInv
      <3>4. CASE cmd[p].kind \in {"disconnect", "export"}
        BY <3>1, <3>2, <3>3, <3>4 DEF AgreedInv, Confirmed
      <3>5. CASE cmd[p].kind = "connect"
        <4>1. binding = seen[p].binding
          BY <3>3, <3>5 DEF Confirmed
        <4>2. ConnectRequest(cmd[p], seen[p].binding, target[p])
          BY <2>2, <3>5 DEF Request
        <4>3. CASE \E root \in Roots : RootRequest(root)
          BY <3>5, <4>3, <1>1 DEF RootRequest, Rebind, Connected, GitInv, TypeOK, GitServerTypeOK, Binding, Unbound
        <4>4. CASE \E i, root, branch : BindRequest(target[p].repo, i, root, branch)
          <5>1. binding'.repo = target[p].repo
            BY <4>4 DEF BindRequest, Rebind, Bound
          <5>2. Connected(binding) /\ binding'.repo # binding.repo => Replacing(seen[p].binding, target[p])
            BY <4>1, <5>1 DEF Replacing
          <5> QED
            BY <3>1, <3>2, <3>5, <4>1, <5>2 DEF AgreedInv
        <4> QED
          BY <1>1, <3>1, <3>5, <4>2, <4>3, <4>4, ConnectRequests
      <3>6. CASE cmd[p].kind \in {"cancel", "root-directory", "production-branch"}
        <4>1. binding \in Binding \cup {Unbound}
          BY <1>1 DEF GitInv, TypeOK, GitServerTypeOK
        <4>2. CancelRequest \/ RootRequest(cmd[p].root) \/ BranchRequest(cmd[p].branch)
          BY <2>2, <3>6 DEF Request
        <4>3. Connected(binding) => binding'.repo = binding.repo
          BY <4>1, <4>2 DEF CancelRequest, RootRequest, BranchRequest, Rebind, Connected, Binding, Unbound
        <4> QED
          BY <3>6, <4>3
      <3> QED
        BY <3>1, <3>2, <3>4, <3>5, <3>6 DEF PlaceInv, Confirmed
    <2> QED
      BY <1>1, <2>1, <2>2, WritesRequest
  <1> QED
    BY <1>1, GitInvHolds, PTL DEF Spec, ReplacedAsAgreed

\* Connecting the connected repository keeps what it was not asked to change.
THEOREM Kept == Spec => ChoicesKept
  <1> DEFINE Fact(p) == /\ cmd[p].root = "unnamed" => binding'.root = binding.root
                        /\ binding.follows = "no" => binding'.branch = binding.branch /\ binding'.follows = "no"
             Premise(p) == /\ Writes(p) /\ cmd[p].kind = "connect"
                           /\ Connected(binding) /\ binding'.repo = binding.repo
  <1>1. ASSUME GitInv, [Next]_gitVars
        PROVE  [\A p \in People : Premise(p) => Fact(p)]_gitVars
    <2> SUFFICES ASSUME Next, NEW p \in People, Premise(p)
                 PROVE  Fact(p)
      BY <1>1
    <2>1. CASE UNCHANGED <<binding, source>>
      BY <2>1
    <2>2. CASE Request(p)
      <3>1. at[p] = "write" /\ late[p] = "no" /\ cmd[p].kind = "connect"
        BY DEF Writes
      <3>2. binding = seen[p].binding /\ binding \in Binding
        BY <1>1, <3>1 DEF GitInv, UnchangedInv, Confirmed, TypeOK, GitServerTypeOK, Connected, Unbound
      <3>3. ConnectRequest(cmd[p], seen[p].binding, target[p])
        BY <2>2, <3>1 DEF Request
      <3>4. CASE cmd[p].root \in Roots /\ RootRequest(cmd[p].root)
        <4>1. cmd[p].root # "unnamed"
          BY <3>4, GitServerAssumption
        <4> QED
          BY <3>2, <3>4, <4>1 DEF RootRequest, Rebind, Binding
      <3>5. CASE /\ RootDirectoryFor(cmd[p], seen[p].binding, target[p]) \in Roots
                 /\ BindRequest(target[p].repo, target[p].installation,
                                RootDirectoryFor(cmd[p], seen[p].binding, target[p]),
                                BranchFor(cmd[p], seen[p].binding, target[p]))
        <4>1. binding' = Bound(target[p].repo, target[p].installation,
                               RootDirectoryFor(cmd[p], seen[p].binding, target[p]),
                               BranchFor(cmd[p], seen[p].binding, target[p]))
          BY <3>5 DEF BindRequest, Rebind
        <4>2. Same(binding, target[p])
          BY <4>1 DEF Same, Bound
        <4>3. cmd[p].root = "unnamed" => binding'.root = binding.root
          BY <3>2, <4>1, <4>2 DEF RootDirectoryFor, Bound
        <4>4. ASSUME binding.follows = "no"
              PROVE  BranchFor(cmd[p], binding, target[p]) = binding.branch
          <5>1. binding.branch # "unnamed"
            BY <3>2, GitServerAssumption DEF Binding
          <5>2. CASE cmd[p].branch = "unnamed"
            BY <4>2, <4>4, <5>2 DEF BranchFor
          <5>3. CASE cmd[p].branch # "unnamed"
            <6>1. ~BranchRefused(cmd[p], binding, target[p])
              BY <1>1, <3>1, <3>2 DEF GitInv, AskedInv
            <6> QED
              BY <4>2, <5>3, <6>1 DEF BranchFor, BranchRefused
          <5> QED
            BY <5>2, <5>3
        <4>5. binding.branch # "unnamed"
          BY <3>2, GitServerAssumption DEF Binding
        <4> QED
          BY <3>2, <4>1, <4>3, <4>4, <4>5 DEF Bound
      <3> QED
        BY <1>1, <3>1, <3>3, <3>4, <3>5, ConnectRequests
    <2> QED
      BY <1>1, <2>1, <2>2, WritesRequest
  <1> QED
    BY <1>1, GitInvHolds, PTL DEF Spec, ChoicesKept
=============================================================================
