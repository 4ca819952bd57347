------------------------- MODULE ProvisioningProofs -------------------------
(***************************************************************************)
(* What sign-ins, mints, the migration script and an administrator may     *)
(* never do to a user's team, row and keys, for any number of them.        *)
(***************************************************************************)
EXTENDS Provisioning, TLAPS

(* A call that is past /team/new has a team, one past /user/new a user, and *)
(* it holds a team for its own only if it is.                               *)
InTeam  == {"member_add", "resolve", "team_info", "team_update"}
Behind  == {"get_user", "user_update", "cap_add", "cap_update", "generate"}

CallInv(p) == /\ proc[p].at \in InTeam => proc[p].personal /\ team.exists
              /\ proc[p].at = "team_new" => proc[p].personal
              /\ proc[p].at \in {"team_new"} \cup InTeam \cup Behind => user.exists
              /\ proc[p].at \in Behind /\ proc[p].personal => team.exists
              /\ proc[p].at \in {"user_new"} \cup Behind /\ ~proc[p].personal => shared
              /\ proc[p].ours => team.exists /\ team.ours

CapInv == /\ capWrites <= 1
          /\ \A p \in Procs : proc[p].at = "cap_add" => capWrites = 0 /\ user.exists
          /\ \A p, q \in Procs : proc[p].at = "cap_add" /\ proc[q].at = "cap_add" => p = q
          /\ ~user.exists => capWrites = 0

(* A team that is not ours has not been given our baseline. *)
ForeignInv == team.exists /\ ~team.ours => ~team.closed

IInv == /\ TypeOK
        /\ NoFailOpen
        /\ NeverBare
        /\ \A p \in Procs : CallInv(p)
        /\ script.at = "move" => team.exists
        /\ CapInv
        /\ ForeignInv

----------------------------------------------------------------------------
(* The initial states satisfy the invariant. *)
LEMMA InitIInv == Init => IInv
<1> SUFFICES ASSUME Init PROVE IInv
  OBVIOUS
<1>1. team \in Team /\ user \in User /\ (user.exists => user.ident)
  <2>1. team \in Team
    <3>1. NoTeam \in Team /\ [OurTeam EXCEPT !.ours = FALSE, !.closed = FALSE] \in Team
      BY DEF Team, NoTeam, OurTeam
    <3> QED BY <3>1 DEF Init
  <2>2. user \in User /\ (user.exists => user.ident)
    <3>1. CASE user = NoUser
      BY <3>1 DEF User, NoUser
    <3>2. CASE user = [NewUser EXCEPT !.budget = FALSE]
      BY <3>2 DEF User, NewUser
    <3> QED BY <3>1, <3>2 DEF Init
  <2> QED BY <2>1, <2>2
<1>2. proc \in [Procs -> Proc] /\ \A p \in Procs : proc[p] = Idle
  BY DEF Init, Proc, Idle, Steps
<1>3. /\ shared \in BOOLEAN /\ member \in BOOLEAN /\ capWrites = 0
      /\ key \in [Keys -> Places] /\ row \in [Keys -> Row] /\ arrived \in SUBSET Keys
  BY DEF Init
<1>4. /\ script \in [at : {"idle", "check", "apply", "create", "confirm", "move"},
                     plan : SUBSET Keys, known : BOOLEAN, key : SUBSET Keys]
      /\ script.at # "move"
  BY DEF Init, Resting
<1>5. NoFailOpen
  BY DEF Init, NoFailOpen
<1>6. \A p \in Procs : CallInv(p)
  <2> TAKE p \in Procs
  <2>1. proc[p].at = "idle" /\ proc[p].ours = FALSE
    BY <1>2 DEF Idle
  <2> QED BY <2>1 DEF CallInv, InTeam, Behind
<1>7. CapInv
  BY <1>2, <1>3 DEF CapInv, Idle
<1>8. ForeignInv
  <2>1. CASE team = NoTeam
    BY <2>1 DEF NoTeam, ForeignInv
  <2>2. CASE team = [OurTeam EXCEPT !.ours = FALSE, !.closed = FALSE]
    BY <2>2 DEF OurTeam, ForeignInv
  <2> QED BY <2>1, <2>2 DEF Init
<1> QED BY <1>1, <1>2, <1>3, <1>4, <1>5, <1>6, <1>7, <1>8 DEF IInv, TypeOK, NeverBare

(* Every step of a call, of the script and of the administrator keeps the  *)
(* state well typed.                                                       *)
LEMMA StepType == ASSUME TypeOK, [Next]_vars PROVE TypeOK'
<1> USE DEF TypeOK, litellm
<1>1. ASSUME NEW p \in Procs, NEW m \in BOOLEAN, NEW own \in BOOLEAN, Start(p, m, own) PROVE TypeOK'
  BY <1>1 DEF Start, Proc, Steps, Idle
<1>2. ASSUME NEW p \in Procs, Step(p) PROVE TypeOK'
  <2> USE DEF At, Goto, Last, Idle, Proc, Steps
  <2>1. CASE SharedNew(p)
    BY <2>1 DEF SharedNew
  <2>2. CASE UserNew(p)
    BY <2>2 DEF UserNew, AfterUser, User, NewUser
  <2>3. CASE TeamNew(p)
    BY <2>3 DEF TeamNew, Team, OurTeam
  <2>4. CASE MemberAdd(p)
    BY <2>4, ZenonT(30) DEF MemberAdd, User, NoUser
  <2>5. CASE Resolve(p)
    BY <2>5 DEF Resolve
  <2>6. CASE TeamInfo(p)
    BY <2>6 DEF TeamInfo, Team
  <2>7. CASE TeamUnreadable(p)
    BY <2>7 DEF TeamUnreadable, AfterTeam
  <2>8. CASE TeamUpdate(p)
    <3>1. Wanted(p) \subseteq Groups
      BY ProvisioningAssumption DEF Wanted
    <3>2. team' \in Team
      BY <2>8, <3>1 DEF TeamUpdate, Team
    <3>3. CASE AfterTeam(p) = "idle"
      BY <2>8, <3>2, <3>3 DEF TeamUpdate, Attached
    <3>4. CASE AfterTeam(p) # "idle"
      <4>1. AfterTeam(p) \in Steps
        BY DEF AfterTeam
      <4> DEFINE rec == [proc[p] EXCEPT !.current = {}, !.ours = FALSE, !.at = AfterTeam(p)]
      <4>2. rec \in Proc
        BY <4>1, ZenonT(30)
      <4>3. proc' = [proc EXCEPT ![p] = rec]
        BY <2>8, <3>4 DEF TeamUpdate, Attached
      <4> HIDE DEF rec
      <4> QED BY <2>8, <3>2, <4>2, <4>3 DEF TeamUpdate
    <3> QED BY <3>3, <3>4
  <2>9. CASE GetUser(p)
    BY <2>9 DEF GetUser
  <2>10. CASE UserUpdate(p)
    BY <2>10 DEF UserUpdate, User, NewUser
  <2>11. CASE CapAdd(p)
    BY <2>11 DEF CapAdd
  <2>12. CASE CapUpdate(p)
    BY <2>12 DEF CapUpdate
  <2>13. CASE \E k \in Keys : Generate(p, k)
    BY <2>13 DEF Generate, Places, Row, OurRow
  <2>14. CASE Fails(p)
    BY <2>14 DEF Fails
  <2> QED
    BY <1>2, <2>1, <2>2, <2>3, <2>4, <2>5, <2>6, <2>7, <2>8, <2>9, <2>10, <2>11, <2>12, <2>13,
       <2>14 DEF Step
<1>3. CASE Script
  <2>1. ASSUME NEW k \in Keys, Migrate(k) PROVE TypeOK'
    BY <2>1 DEF Migrate
  <2>2. CASE MigrateCreate
    <3>1. OurTeam \in Team
      BY DEF Team, OurTeam
    <3>2. team' \in Team
      BY <2>2, <3>1 DEF MigrateCreate
    <3> QED BY <2>2, <3>2 DEF MigrateCreate
  <2>3. CASE MigrateConfirm
    BY <2>3 DEF MigrateConfirm, NextRow
  <2>4. CASE MigrateMove
    BY <2>4 DEF MigrateMove, NextRow, Places
  <2>5. CASE MigrateSkips
    BY <2>5 DEF MigrateSkips, NextRow
  <2>6. CASE MigrateList
    BY <2>6 DEF MigrateList, Resting
  <2>7. CASE MigrateCheck
    BY <2>7 DEF MigrateCheck, Team
  <2>8. CASE MigrateEnds
    BY <2>8 DEF MigrateEnds, Resting
  <2> QED BY <1>3, <2>1, <2>2, <2>3, <2>4, <2>5, <2>6, <2>7, <2>8 DEF Script
<1>4. CASE Admin
  <2>1. ASSUME NEW g \in Groups, AttachByHand(g) PROVE TypeOK'
    BY <2>1 DEF AttachByHand, Team
  <2>2. CASE OpenByHand
    BY <2>2 DEF OpenByHand, Team
  <2>3. ASSUME NEW k \in Keys, GiveToAch(k) PROVE TypeOK'
    BY <2>3 DEF GiveToAch, Places
  <2> QED BY <1>4, <2>1, <2>2, <2>3 DEF Admin
<1>5. CASE UNCHANGED vars
  BY <1>5 DEF vars
<1> QED BY <1>1, <1>2, <1>3, <1>4, <1>5 DEF Next

(* What a call may change of the others: nothing, while the team and the   *)
(* user stay, the team stays ours and the shared team stays.               *)
LEMMA OthersKept ==
  ASSUME TypeOK, TypeOK', NEW q \in Procs, CallInv(q), proc'[q] = proc[q],
         team.exists => team'.exists /\ (team.ours => team'.ours),
         user.exists => user'.exists,
         shared => shared'
  PROVE CallInv(q)'
  BY DEF CallInv

(* No step removes a team, its stamp, a user or the shared team. *)
LEMMA Monotone ==
  ASSUME TypeOK, [Next]_vars
  PROVE /\ team.exists => team'.exists /\ team'.ours = team.ours
        /\ user.exists => user'.exists
        /\ shared => shared'
<1> USE DEF TypeOK, litellm
<1>1. CASE UNCHANGED team
  <2>1. user.exists => user'.exists
    <3>1. \/ UNCHANGED user
          \/ \E p \in Procs : UserNew(p) \/ MemberAdd(p) \/ UserUpdate(p)
      BY <1>1 DEF Next, vars, Start, Step, SharedNew, Resolve, TeamInfo, TeamUnreadable, TeamNew,
                  TeamUpdate, GetUser, CapAdd, CapUpdate, Generate, Fails, Script, Migrate,
                  MigrateCreate, MigrateConfirm, MigrateMove, MigrateSkips, MigrateEnds,
                  MigrateList, MigrateCheck, Admin, AttachByHand, OpenByHand, GiveToAch
    <3>2. NewUser.exists
      BY DEF NewUser
    <3> QED BY <3>1, <3>2 DEF UserNew, MemberAdd, UserUpdate
  <2>2. shared => shared'
    BY <1>1 DEF Next, vars, Start, Step, SharedNew, UserNew, MemberAdd, Resolve, TeamInfo,
                TeamUnreadable, TeamNew, TeamUpdate, GetUser, UserUpdate, CapAdd, CapUpdate,
                Generate, Fails, Script, Migrate, MigrateCreate, MigrateConfirm, MigrateMove,
                MigrateSkips, MigrateEnds, MigrateList, MigrateCheck, Admin, AttachByHand,
                OpenByHand, GiveToAch
  <2> QED BY <1>1, <2>1, <2>2
<1>2. CASE ~UNCHANGED team
  <2>1. \/ \E p \in Procs : TeamNew(p) \/ TeamUpdate(p)
        \/ MigrateCreate
        \/ Admin
    BY <1>2 DEF Next, vars, Start, Step, SharedNew, UserNew, MemberAdd, Resolve, TeamInfo,
                TeamUnreadable, GetUser, UserUpdate, CapAdd, CapUpdate, Generate, Fails, Script,
                Migrate, MigrateConfirm, MigrateMove, MigrateSkips, MigrateEnds, MigrateList,
                MigrateCheck
  <2>2. UNCHANGED <<user, shared>>
    BY <2>1 DEF TeamNew, TeamUpdate, MigrateCreate, Admin, AttachByHand, OpenByHand, GiveToAch
  <2>3. team.exists => team'.exists /\ team'.ours = team.ours
    BY <2>1 DEF TeamNew, TeamUpdate, MigrateCreate, Admin, AttachByHand, OpenByHand, GiveToAch, Team
  <2> QED BY <2>2, <2>3
<1> QED BY <1>1, <1>2

(* A call keeps what it knows, and what the others know. *)
LEMMA StepCalls ==
  ASSUME IInv, TypeOK', [Next]_vars
  PROVE \A q \in Procs : CallInv(q)'
<1> SUFFICES ASSUME NEW q \in Procs PROVE CallInv(q)'
  OBVIOUS
<1>0. /\ TypeOK /\ CallInv(q)
      /\ team.exists => team'.exists /\ team'.ours = team.ours
      /\ user.exists => user'.exists
      /\ shared => shared'
  BY Monotone DEF IInv
<1>1. CASE proc'[q] = proc[q]
  BY <1>0, <1>1, OthersKept
<1>2. ASSUME NEW m \in BOOLEAN, NEW own \in BOOLEAN, Start(q, m, own) PROVE CallInv(q)'
  <2>1. /\ proc'[q].at \in {"user_new", "shared_new"} /\ proc'[q].personal = own
        /\ proc'[q].at = "user_new" => own
        /\ proc'[q].ours = FALSE
    BY <1>0, <1>2 DEF Start, Idle, TypeOK
  <2> QED BY <1>0, <2>1 DEF CallInv, InTeam, Behind
<1>3. CASE Step(q)
  <2>1. CASE SharedNew(q)
    BY <1>0, <2>1 DEF SharedNew, At, Goto, CallInv, InTeam, Behind, TypeOK, Proc
  <2>2. CASE UserNew(q)
    <3>1. user'.exists
      BY <2>2 DEF UserNew, NewUser
    <3> QED BY <1>0, <2>2, <3>1 DEF UserNew, AfterUser, At, CallInv, InTeam, Behind, TypeOK, Proc
  <2>3. CASE TeamNew(q)
    <3>1. team'.exists /\ (~team.exists => team'.ours)
      BY <2>3 DEF TeamNew, OurTeam
    <3> QED BY <1>0, <2>3, <3>1 DEF TeamNew, At, CallInv, InTeam, Behind, TypeOK, Proc
  <2>4. CASE MemberAdd(q)
    BY <1>0, <2>4 DEF MemberAdd, At, Goto, CallInv, InTeam, Behind, TypeOK, Proc
  <2>5. CASE Resolve(q)
    BY <1>0, <2>5 DEF Resolve, At, Goto, CallInv, InTeam, Behind, TypeOK, Proc, litellm
  <2>6. CASE TeamInfo(q)
    BY <1>0, <2>6 DEF TeamInfo, At, CallInv, InTeam, Behind, TypeOK, Proc, litellm
  <2>7. CASE TeamUnreadable(q)
    BY <1>0, <2>7 DEF TeamUnreadable, AfterTeam, Last, At, Goto, Idle, CallInv, InTeam, Behind,
                      TypeOK, Proc, litellm
  <2>8. CASE TeamUpdate(q)
    BY <1>0, <2>8 DEF TeamUpdate, Attached, AfterTeam, Last, At, Idle, CallInv, InTeam, Behind,
                      TypeOK, Proc
  <2>9. CASE GetUser(q)
    BY <1>0, <2>9 DEF GetUser, Last, At, Goto, Idle, CallInv, InTeam, Behind, TypeOK, Proc, litellm
  <2>10. CASE UserUpdate(q)
    BY <1>0, <2>10 DEF UserUpdate, Last, At, Goto, Idle, CallInv, InTeam, Behind, TypeOK, Proc
  <2>11. CASE CapAdd(q)
    BY <1>0, <2>11 DEF CapAdd, At, Goto, CallInv, InTeam, Behind, TypeOK, Proc, litellm
  <2>12. CASE CapUpdate(q)
    BY <1>0, <2>12 DEF CapUpdate, Last, At, Goto, Idle, CallInv, InTeam, Behind, TypeOK, Proc, litellm
  <2>13. CASE Fails(q) \/ \E k \in Keys : Generate(q, k)
    <3>1. proc'[q] = Idle
      BY <1>0, <2>13 DEF Fails, Generate, Goto, TypeOK
    <3> QED BY <3>1 DEF CallInv, InTeam, Behind, Idle
  <2> QED
    BY <1>3, <2>1, <2>2, <2>3, <2>4, <2>5, <2>6, <2>7, <2>8, <2>9, <2>10, <2>11, <2>12, <2>13
    DEF Step
<1>4. ASSUME NEW p \in Procs, p # q, Step(p) \/ \E m, own \in BOOLEAN : Start(p, m, own)
      PROVE proc'[q] = proc[q]
  BY <1>0, <1>4 DEF Step, Start, SharedNew, UserNew, TeamNew, MemberAdd, Resolve, TeamInfo,
                    TeamUnreadable, TeamUpdate, Attached, GetUser, UserUpdate, CapAdd, CapUpdate,
                    Generate, Fails, Goto, TypeOK
<1>5. CASE Script \/ Admin \/ UNCHANGED vars
  BY <1>1, <1>5 DEF Script, Migrate, MigrateCreate, MigrateConfirm, MigrateMove, MigrateSkips,
                    MigrateEnds, MigrateList, MigrateCheck, Admin, AttachByHand, OpenByHand,
                    GiveToAch, vars
<1> QED BY <1>1, <1>2, <1>3, <1>4, <1>5 DEF Next

(* A key is put into the personal team by a mint or by the script, and by  *)
(* then the team exists.                                                   *)
LEMMA StepKeys ==
  ASSUME IInv, TypeOK', [Next]_vars
  PROVE NoFailOpen'
<1>0. /\ TypeOK /\ NoFailOpen
      /\ team.exists => team'.exists
      /\ shared => shared'
  BY Monotone DEF IInv
<1>1. CASE UNCHANGED key
  BY <1>0, <1>1 DEF NoFailOpen
<1>2. ASSUME NEW p \in Procs, NEW k \in Keys, Generate(p, k) PROVE NoFailOpen'
  <2>1. IF proc[p].personal THEN team.exists ELSE shared
    BY <1>0, <1>2 DEF IInv, Generate, At, CallInv, Behind
  <2> QED BY <1>0, <1>2, <2>1 DEF Generate, NoFailOpen, TypeOK
<1>3. CASE MigrateMove
  <2>1. team.exists
    BY <1>3 DEF MigrateMove, IInv
  <2> QED BY <1>0, <1>3, <2>1 DEF MigrateMove, NoFailOpen, TypeOK
<1>4. ASSUME NEW k \in Keys, GiveToAch(k) PROVE NoFailOpen'
  BY <1>0, <1>4 DEF GiveToAch, NoFailOpen, TypeOK
<1> QED
  BY <1>1, <1>2, <1>3, <1>4
  DEF Next, vars, litellm, Start, Step, SharedNew, UserNew, TeamNew, MemberAdd, Resolve, TeamInfo,
      TeamUnreadable, TeamUpdate, GetUser, UserUpdate, CapAdd, CapUpdate, Fails, Script, Migrate,
      MigrateCreate, MigrateConfirm, MigrateSkips, MigrateEnds, MigrateList, MigrateCheck, Admin,
      AttachByHand, OpenByHand, GiveToAch

(* The row is made by /user/new before any /team/member_add could make it. *)
LEMMA StepUser ==
  ASSUME IInv, [Next]_vars
  PROVE NeverBare'
<1>1. CASE UNCHANGED user
  BY <1>1 DEF IInv, NeverBare
<1>2. ASSUME NEW p \in Procs, UserNew(p) \/ UserUpdate(p) PROVE NeverBare'
  BY <1>2 DEF UserNew, UserUpdate, NewUser, IInv, NeverBare
<1>3. ASSUME NEW p \in Procs, MemberAdd(p) PROVE NeverBare'
  <2>1. user.exists
    BY <1>3 DEF MemberAdd, At, IInv, CallInv, InTeam
  <2> QED BY <1>3, <2>1 DEF MemberAdd, IInv, NeverBare
<1> QED
  BY <1>1, <1>2, <1>3
  DEF Next, vars, litellm, Start, Step, SharedNew, TeamNew, Resolve, TeamInfo, TeamUnreadable,
      TeamUpdate, GetUser, CapAdd, CapUpdate, Generate, Fails, Script, Migrate, MigrateCreate,
      MigrateConfirm, MigrateMove, MigrateSkips, MigrateEnds, MigrateList, MigrateCheck, Admin,
      AttachByHand, OpenByHand, GiveToAch

(* The script moves a key only after /team/info has shown the team. *)
LEMMA StepScript ==
  ASSUME IInv, [Next]_vars
  PROVE script'.at = "move" => team'.exists
<1>0. TypeOK /\ (team.exists => team'.exists)
  BY Monotone DEF IInv
<1>1. CASE UNCHANGED script
  BY <1>0, <1>1 DEF IInv
<1>2. CASE Script
  <2> USE DEF TypeOK
  <2>1. CASE MigrateConfirm
    <3>1. CASE team.exists
      BY <1>0, <3>1
    <3>2. CASE ~team.exists
      BY <2>1, <3>2 DEF MigrateConfirm, NextRow
    <3> QED BY <3>1, <3>2
  <2>2. CASE MigrateList \/ MigrateEnds
    <3>1. MigrateList => script'.at = "check"
      BY DEF MigrateList, Resting
    <3>2. MigrateEnds => script'.at = "idle"
      BY DEF MigrateEnds, Resting
    <3> QED BY <2>2, <3>1, <3>2
  <2>3. CASE MigrateCheck \/ MigrateCreate
    BY <1>0, <2>3 DEF MigrateCheck, MigrateCreate
  <2>4. CASE \E k \in Keys : Migrate(k)
    BY <1>0, <2>4 DEF Migrate
  <2>5. CASE MigrateMove
    BY <1>0, <2>5 DEF MigrateMove, NextRow
  <2>6. CASE MigrateSkips
    BY <1>0, <2>6 DEF MigrateSkips, NextRow
  <2> QED BY <1>2, <2>1, <2>2, <2>3, <2>4, <2>5, <2>6 DEF Script
<1> QED
  BY <1>1, <1>2
  DEF Next, vars, Start, Step, SharedNew, UserNew, TeamNew, MemberAdd, Resolve, TeamInfo,
      TeamUnreadable, TeamUpdate, GetUser, UserUpdate, CapAdd, CapUpdate, Generate, Fails, Admin,
      AttachByHand, OpenByHand, GiveToAch

(* Only the call whose /user/new made the row goes on to cap it. *)
LEMMA StepCap ==
  ASSUME IInv, TypeOK', [Next]_vars
  PROVE CapInv'
<1>0. TypeOK /\ CapInv /\ (user.exists => user'.exists)
  BY Monotone DEF IInv
<1>1. ASSUME UNCHANGED capWrites, \A p \in Procs : proc'[p].at = "cap_add" => proc[p].at = "cap_add"
      PROVE CapInv'
  BY <1>0, <1>1 DEF CapInv
<1>2. ASSUME NEW p \in Procs, UserNew(p) PROVE CapInv'
  <2>1. CASE user.exists
    <3>1. \A q \in Procs : proc'[q].at = "cap_add" => proc[q].at = "cap_add"
      BY <1>0, <1>2, <2>1 DEF UserNew, AfterUser, TypeOK, Proc
    <3> QED BY <1>1, <1>2, <3>1 DEF UserNew
  <2>2. CASE ~user.exists
    <3>1. user'.exists /\ capWrites' = 0
      BY <1>0, <1>2, <2>2 DEF UserNew, NewUser, CapInv
    <3>2. \A q \in Procs : proc'[q].at = "cap_add" => q = p
      BY <1>0, <1>2, <2>2 DEF UserNew, CapInv, TypeOK, Proc
    <3> QED BY <3>1, <3>2 DEF CapInv
  <2> QED BY <2>1, <2>2
<1>3. ASSUME NEW p \in Procs, CapAdd(p) PROVE CapInv'
  <2>1. capWrites = 0 /\ user.exists
    BY <1>0, <1>3 DEF CapAdd, At, CapInv
  <2>2. capWrites' = 1
    BY <1>3, <2>1 DEF CapAdd
  <2>3. \A q \in Procs : proc'[q].at # "cap_add"
    BY <1>0, <1>3 DEF CapAdd, At, Goto, CapInv, TypeOK, Proc
  <2> QED BY <1>0, <2>1, <2>2, <2>3 DEF CapInv
<1>4. ASSUME NEW p \in Procs, Step(p), ~UserNew(p), ~CapAdd(p) PROVE CapInv'
  <2>1. UNCHANGED capWrites
    BY <1>4 DEF Step, SharedNew, TeamNew, MemberAdd, Resolve, TeamInfo, TeamUnreadable, TeamUpdate,
                GetUser, UserUpdate, CapUpdate, Generate, Fails
  <2>2. \A q \in Procs : q # p => proc'[q] = proc[q]
    BY <1>0, <1>4 DEF Step, SharedNew, TeamNew, MemberAdd, Resolve, TeamInfo, TeamUnreadable,
                      TeamUpdate, GetUser, UserUpdate, CapUpdate, Generate, Fails, Goto, Attached,
                      TypeOK
  <2>3. proc'[p].at # "cap_add"
    <3> USE DEF TypeOK, Proc, Goto, Last, AfterTeam, Idle
    <3>1. CASE SharedNew(p) \/ TeamNew(p) \/ MemberAdd(p)
      BY <1>0, <3>1 DEF SharedNew, TeamNew, MemberAdd
    <3>2. CASE Resolve(p) \/ TeamInfo(p) \/ TeamUnreadable(p)
      BY <1>0, <3>2 DEF Resolve, TeamInfo, TeamUnreadable
    <3>3. CASE TeamUpdate(p)
      BY <1>0, <3>3 DEF TeamUpdate, Attached
    <3>4. CASE GetUser(p) \/ UserUpdate(p) \/ CapUpdate(p)
      BY <1>0, <3>4 DEF GetUser, UserUpdate, CapUpdate
    <3>5. CASE Fails(p) \/ \E k \in Keys : Generate(p, k)
      BY <1>0, <3>5 DEF Fails, Generate
    <3> QED BY <1>4, <3>1, <3>2, <3>3, <3>4, <3>5 DEF Step
  <2> QED BY <1>1, <2>1, <2>2, <2>3
<1>5. ASSUME NEW p \in Procs, NEW m \in BOOLEAN, NEW own \in BOOLEAN, Start(p, m, own)
      PROVE CapInv'
  <2>1. \A q \in Procs : proc'[q].at = "cap_add" => proc[q].at = "cap_add"
    BY <1>0, <1>5 DEF Start, Idle, TypeOK
  <2> QED BY <1>1, <1>5, <2>1 DEF Start
<1>6. CASE Script \/ Admin \/ UNCHANGED vars
  <2>1. UNCHANGED <<proc, capWrites>>
    BY <1>6 DEF Script, Migrate, MigrateCreate, MigrateConfirm, MigrateMove, MigrateSkips,
                MigrateEnds, MigrateList, MigrateCheck, Admin, AttachByHand, OpenByHand, GiveToAch,
                vars
  <2> QED BY <1>1, <2>1
<1> QED BY <1>2, <1>3, <1>4, <1>5, <1>6 DEF Next

(* The baseline is reasserted only by a call that holds the team for ours, *)
(* and then it is.                                                         *)
LEMMA StepForeign ==
  ASSUME IInv, [Next]_vars
  PROVE /\ ForeignInv'
        /\ team.exists /\ ~team.ours => team'.closed = team.closed
<1>0. TypeOK /\ ForeignInv
  BY DEF IInv
<1>1. CASE UNCHANGED team
  BY <1>0, <1>1 DEF ForeignInv
<1>2. CASE (MigrateCreate \/ \E p \in Procs : TeamNew(p)) /\ ~UNCHANGED team
  <2>1. team' = IF team.exists THEN team ELSE OurTeam
    BY <1>2 DEF MigrateCreate, TeamNew
  <2>2. OurTeam.ours
    BY DEF OurTeam
  <2> QED BY <1>0, <2>1, <2>2 DEF ForeignInv
<1>3. ASSUME NEW p \in Procs, TeamUpdate(p)
      PROVE /\ ForeignInv'
            /\ team.exists /\ ~team.ours => team'.closed = team.closed
  <2>1. proc[p].ours => team.ours
    BY DEF IInv, CallInv
  <2>2. /\ team'.exists = team.exists
        /\ team'.ours = team.ours
        /\ team'.closed = (team.closed \/ proc[p].ours)
    BY <1>0, <1>3 DEF TeamUpdate, TypeOK, Team
  <2> QED BY <1>0, <2>1, <2>2 DEF ForeignInv, TypeOK, Team
<1>4. CASE OpenByHand
  BY <1>0, <1>4 DEF OpenByHand, ForeignInv, TypeOK, Team
<1>5. CASE \E g \in Groups : AttachByHand(g)
  <2>1. team'.exists = team.exists /\ team'.ours = team.ours /\ team'.closed = team.closed
    BY <1>0, <1>5 DEF AttachByHand, TypeOK, Team
  <2> QED BY <1>0, <2>1 DEF ForeignInv
<1> QED
  BY <1>1, <1>2, <1>3, <1>4, <1>5
  DEF Next, Admin, vars, litellm, Start, Step, SharedNew, UserNew, MemberAdd, Resolve, TeamInfo,
      TeamUnreadable, GetUser, UserUpdate, CapAdd, CapUpdate, Generate, Fails, Script, Migrate,
      MigrateConfirm, MigrateMove, MigrateSkips, MigrateEnds, MigrateList, MigrateCheck, GiveToAch
----------------------------------------------------------------------------
(* The invariant is inductive. *)
THEOREM Inductive == Spec => []IInv
<1>1. IInv /\ [Next]_vars => IInv'
  BY StepType, StepCalls, StepKeys, StepUser, StepScript, StepCap, StepForeign DEF IInv
<1> QED BY InitIInv, <1>1, PTL DEF Spec

(* Provisioning keeps its state well typed. *)
THEOREM TypeCorrect == Spec => []TypeOK
<1>1. IInv => TypeOK
  BY DEF IInv
<1> QED BY Inductive, <1>1, PTL

(* No key is ever minted or moved into a team that does not exist          *)
(* (generate_litellm_key, migrate-personal-teams.py).                      *)
THEOREM NoFailOpenCorrect == Spec => []NoFailOpen
<1>1. IInv => NoFailOpen
  BY DEF IInv
<1> QED BY Inductive, <1>1, PTL

(* No sign-in leaves a user row without an identity (ensure_team_and_user). *)
THEOREM NeverBareCorrect == Spec => []NeverBare
<1>1. IInv => NeverBare
  BY DEF IInv
<1> QED BY Inductive, <1>1, PTL

(* One call at most writes the per-member cap (ensure_team_member_budget). *)
THEOREM OneCapWriterCorrect == Spec => []OneCapWriter
<1>1. IInv => OneCapWriter
  BY DEF IInv, CapInv, OneCapWriter
<1> QED BY Inductive, <1>1, PTL

(* A team that is not ours keeps its permissions (ensure_personal_team). *)
THEOREM ForeignTeamKeptCorrect == Spec => ForeignTeamKept
<1>1. IInv /\ [Next]_vars => [team.exists /\ ~team.ours => team'.closed = team.closed]_vars
  BY StepForeign
<1> QED BY Inductive, <1>1, PTL DEF Spec, ForeignTeamKept
----------------------------------------------------------------------------
(* The plan outlives the listing: its keys are still there and still ours, *)
(* and one that is in a team of ach by now was put there meanwhile.        *)
PlanInv ==
    \A k \in script.plan \cup script.key : /\ key[k] # "none"
                                           /\ row[k] = OurRow
                                           /\ key[k] = "ach" => k \in arrived

(* What classify lets through is ours and outside the teams of ach. *)
LEMMA ClassifiedIsOurs ==
  ASSUME TypeOK, NEW k \in Keys, Classify(k) PROVE row[k] = OurRow /\ key[k] # "ach"
<1>1. row[k] \in Row /\ ~row[k].prefixed /\ row[k].ours /\ row[k].owned
  BY DEF Classify, TypeOK
<1> QED
  BY <1>1 DEF Classify, Row, OurRow

(* Sign-ins, mints and the administrator leave the plan what it is, and    *)
(* the script moves only what is in it.                                    *)
LEMMA StepPlan ==
  ASSUME TypeOK, PlanInv, [Next]_vars
  PROVE  /\ PlanInv'
         /\ \A k \in Keys : Moved(k) => row[k] = OurRow /\ (key[k] = "ach" => k \in arrived)
<1> DEFINE Goal == /\ PlanInv'
                   /\ \A k \in Keys : Moved(k) => row[k] = OurRow
                                                   /\ (key[k] = "ach" => k \in arrived)
<1> SUFFICES Goal
  OBVIOUS
<1> USE DEF PlanInv, Moved, litellm
<1>1. ASSUME NEW p \in Procs, NEW k \in Keys, Generate(p, k) PROVE Goal
  BY <1>1 DEF Generate, TypeOK
<1>2. ASSUME UNCHANGED <<key, row, script, arrived>> PROVE Goal
  BY <1>2
<1>3. ASSUME NEW p \in Procs, Step(p), ~\E k \in Keys : Generate(p, k) PROVE Goal
  BY <1>2, <1>3 DEF Step, SharedNew, UserNew, TeamNew, MemberAdd, Resolve, TeamInfo, TeamUnreadable,
                    TeamUpdate, GetUser, UserUpdate, CapAdd, CapUpdate, Fails
<1>4. CASE MigrateList
  <2>1. /\ script'.plan = {k \in Keys : key[k] # "none" /\ Classify(k)} /\ script'.key = {}
        /\ UNCHANGED <<key, row>>
    BY <1>4 DEF MigrateList, Resting
  <2> QED
    BY <2>1, ClassifiedIsOurs
<1>5. ASSUME script'.plan \cup script'.key \subseteq script.plan \cup script.key,
             UNCHANGED <<key, row, arrived>>
      PROVE  Goal
  BY <1>5
<1>6. CASE \/ MigrateCheck \/ MigrateCreate \/ MigrateConfirm \/ MigrateSkips
           \/ \E k \in Keys : Migrate(k)
  <2> USE DEF TypeOK
  <2>1. CASE MigrateCheck \/ MigrateCreate
    BY <1>5, <2>1 DEF MigrateCheck, MigrateCreate
  <2>2. CASE MigrateConfirm
    BY <1>5, <2>2 DEF MigrateConfirm, NextRow
  <2>3. ASSUME NEW k \in Keys, Migrate(k) PROVE Goal
    <3>1. script'.plan = script.plan \ {k} /\ script'.key = {k} /\ k \in script.plan
      BY <2>3 DEF Migrate
    <3> QED BY <1>5, <2>3, <3>1 DEF Migrate
  <2>4. CASE MigrateSkips
    <3>1. script'.plan \subseteq script.plan /\ script'.key \subseteq script.key
      BY <2>4 DEF MigrateSkips, NextRow
    <3> QED BY <1>5, <2>4, <3>1 DEF MigrateSkips
  <2> QED BY <1>6, <2>1, <2>2, <2>3, <2>4
<1>7. CASE MigrateEnds
  BY <1>7 DEF MigrateEnds, Resting
<1>8. CASE MigrateMove
  <2>1. /\ \A k \in Keys : key'[k] = IF k \in script.key /\ member THEN "personal" ELSE key[k]
        /\ script'.plan = script.plan /\ script'.key = {} /\ UNCHANGED <<row, arrived>>
        /\ script.plan \subseteq Keys
    BY <1>8 DEF MigrateMove, NextRow, TypeOK
  <2> QED
    BY <2>1
<1>9. ASSUME NEW k \in Keys, GiveToAch(k) PROVE Goal
  BY <1>9 DEF GiveToAch, TypeOK
<1>10. CASE \/ \E p \in Procs, m, own \in BOOLEAN : Start(p, m, own)
            \/ \E g \in Groups : AttachByHand(g)
            \/ OpenByHand
            \/ UNCHANGED vars
  BY <1>2, <1>10 DEF Start, AttachByHand, OpenByHand, vars
<1> QED
  BY <1>1, <1>3, <1>4, <1>6, <1>7, <1>8, <1>9, <1>10 DEF Next, Step, Script, Admin

(* The script moves only keys of ours, and out of a team of ach only one   *)
(* put there after the listing, for any number of keys, sign-ins and mints *)
(* and any order of failures.                                              *)
THEOREM OnlyOursMovesCorrect == Spec => OnlyOursMoves
<1>1. Init => PlanInv
  BY DEF Init, PlanInv, Resting
<1>2. TypeOK /\ PlanInv /\ [Next]_vars => PlanInv'
  BY StepPlan
<1>3. TypeOK /\ PlanInv /\ [Next]_vars
        => [\A k \in Keys : Moved(k) =>
               /\ row[k] = OurRow
               /\ key[k] = "ach" => k \in arrived]_vars
  BY StepPlan
<1> QED
  BY <1>1, <1>2, <1>3, TypeCorrect, PTL DEF Spec, OnlyOursMoves
----------------------------------------------------------------------------
(* No two calls attach groups at the same time, and the administrator      *)
(* attaches none while a call does.                                        *)
OneAttach == \A p, q \in Procs : proc[p].at \in InTeam /\ proc[q].at \in InTeam => p = q
ByHandApart == (\E g \in Groups : AttachByHand(g)) => \A p \in Procs : proc[p].at \notin InTeam

(* A call that is about to write the groups knows all of them; a team that *)
(* is not there yet, or that the call has just made, has none.             *)
GroupsKnown(p) == /\ proc[p].at = "team_update" => team.groups \subseteq proc[p].current
                  /\ proc[p].at \in {"member_add", "resolve"} /\ proc[p].ours => team.groups = {}
GroupsRead == /\ ~team.exists => team.groups = {}
              /\ \A p \in Procs : GroupsKnown(p)

(* What a step does to the groups: the write of a call, or more of them. *)
LEMMA StepGroups ==
  ASSUME IInv, GroupsRead, OneAttach, [Next]_vars, [ByHandApart]_vars
  PROVE  /\ team.groups \subseteq team'.groups
         /\ ~team'.exists => team'.groups = {}
         /\ \A q \in Procs : proc'[q] = proc[q] /\ proc[q].at \in InTeam => team'.groups = team.groups
<1>0. TypeOK /\ \A p \in Procs : CallInv(p)
  BY DEF IInv
<1>1. CASE UNCHANGED team
  BY <1>1 DEF GroupsRead
<1>2. CASE (MigrateCreate \/ \E p \in Procs : TeamNew(p)) /\ ~UNCHANGED team
  <2>1. team' = IF team.exists THEN team ELSE OurTeam
    BY <1>2 DEF MigrateCreate, TeamNew
  <2>2. OurTeam.groups = {} /\ OurTeam.exists
    BY DEF OurTeam
  <2> QED BY <1>0, <2>1, <2>2 DEF GroupsRead, CallInv
<1>3. ASSUME NEW p \in Procs, TeamUpdate(p)
      PROVE  /\ team.groups \subseteq team'.groups
             /\ ~team'.exists => team'.groups = {}
             /\ \A q \in Procs : proc'[q] = proc[q] /\ proc[q].at \in InTeam
                                  => team'.groups = team.groups
  <2>1. /\ team'.exists = team.exists
        /\ team'.groups = proc[p].current \cup Wanted(p)
    BY <1>0, <1>3 DEF TeamUpdate, TypeOK, Team
  <2>2. proc[p].at = "team_update" /\ proc[p].at \in InTeam /\ team.exists
    BY <1>0, <1>3 DEF TeamUpdate, At, CallInv, InTeam
  <2>3. team.groups \subseteq team'.groups
    BY <2>1, <2>2 DEF GroupsRead, GroupsKnown
  <2>4. proc'[p].at # "team_update"
    BY <1>0, <1>3 DEF TeamUpdate, Attached, AfterTeam, Last, Idle, TypeOK, Proc
  <2>5. \A q \in Procs : proc[q].at \in InTeam => q = p
    BY <2>2 DEF OneAttach
  <2> QED BY <2>1, <2>2, <2>3, <2>4, <2>5
<1>4. CASE OpenByHand
  BY <1>0, <1>4 DEF OpenByHand, GroupsRead, TypeOK, Team
<1>5. CASE (\E g \in Groups : AttachByHand(g)) /\ ~UNCHANGED team
  <2>1. PICK g \in Groups : AttachByHand(g)
    BY <1>5
  <2>2. team'.groups = team.groups \cup {g} /\ team'.exists
    BY <1>0, <2>1 DEF AttachByHand, TypeOK, Team
  <2>3. \A q \in Procs : proc[q].at \notin InTeam
    BY <1>5, <2>1 DEF ByHandApart, vars, litellm
  <2> QED BY <2>2, <2>3
<1> QED
  BY <1>1, <1>2, <1>3, <1>4, <1>5
  DEF Next, Admin, vars, litellm, Start, Step, SharedNew, UserNew, MemberAdd, Resolve, TeamInfo,
      TeamUnreadable, GetUser, UserUpdate, CapAdd, CapUpdate, Generate, Fails, Script, Migrate,
      MigrateConfirm, MigrateMove, MigrateSkips, MigrateEnds, MigrateList, MigrateCheck, GiveToAch

(* A call keeps what it knows of the groups. *)
LEMMA StepGroupsKnown ==
  ASSUME IInv, GroupsRead, OneAttach, [Next]_vars, [ByHandApart]_vars
  PROVE  GroupsRead'
<1>0. TypeOK /\ \A p \in Procs : CallInv(p) /\ GroupsKnown(p)
  BY DEF IInv, GroupsRead
<1>1. ~team'.exists => team'.groups = {}
  BY StepGroups
<1> SUFFICES ASSUME NEW q \in Procs PROVE GroupsKnown(q)'
  BY <1>1 DEF GroupsRead
<1>2. CASE proc'[q] = proc[q]
  <2>1. CASE proc[q].at \in InTeam
    <3>1. team'.groups = team.groups
      BY <1>2, <2>1, StepGroups
    <3> QED BY <1>0, <1>2, <3>1 DEF GroupsKnown
  <2>2. CASE proc[q].at \notin InTeam
    BY <1>2, <2>2 DEF GroupsKnown, InTeam
  <2> QED BY <2>1, <2>2
<1>3. ASSUME proc'[q].at \notin InTeam PROVE GroupsKnown(q)'
  BY <1>3 DEF GroupsKnown, InTeam
<1>4. CASE TeamNew(q)
  <2>1. /\ proc'[q].at = "member_add" /\ proc'[q].ours = ~team.exists
        /\ team' = IF team.exists THEN team ELSE OurTeam
    BY <1>0, <1>4 DEF TeamNew, TypeOK, Proc
  <2>2. OurTeam.groups = {}
    BY DEF OurTeam
  <2> QED BY <2>1, <2>2 DEF GroupsKnown
<1>5. CASE MemberAdd(q)
  <2>1. /\ proc[q].at = "member_add" /\ proc'[q].at = "resolve" /\ proc'[q].ours = proc[q].ours
        /\ team' = team
    BY <1>0, <1>5 DEF MemberAdd, At, Goto, TypeOK, Proc
  <2> QED BY <1>0, <2>1 DEF GroupsKnown
<1>6. CASE Resolve(q)
  <2>1. /\ proc[q].at = "resolve"
        /\ proc'[q].at = IF proc[q].ours THEN "team_update" ELSE "team_info"
        /\ team' = team
    BY <1>0, <1>6 DEF Resolve, At, Goto, TypeOK, Proc, litellm
  <2> QED BY <1>0, <2>1 DEF GroupsKnown
<1>7. CASE TeamInfo(q)
  <2>1. proc'[q].at = "team_update" /\ proc'[q].current = team.groups /\ team' = team
    BY <1>0, <1>7 DEF TeamInfo, TypeOK, Proc, litellm
  <2> QED BY <2>1 DEF GroupsKnown
<1>8. CASE SharedNew(q) \/ UserNew(q) \/ TeamUnreadable(q) \/ TeamUpdate(q) \/ GetUser(q)
           \/ UserUpdate(q) \/ CapAdd(q) \/ CapUpdate(q) \/ Fails(q)
           \/ \E k \in Keys : Generate(q, k)
  <2> USE DEF InTeam, TypeOK, Proc, Idle
  <2>1. CASE SharedNew(q) \/ UserNew(q)
    BY <1>0, <1>3, <2>1 DEF SharedNew, UserNew, AfterUser, Goto
  <2>2. CASE TeamUnreadable(q)
    BY <1>0, <1>3, <2>2 DEF TeamUnreadable, AfterTeam, Last, Goto
  <2>3. CASE TeamUpdate(q)
    BY <1>0, <1>3, <2>3 DEF TeamUpdate, Attached, AfterTeam, Last
  <2>4. CASE GetUser(q) \/ UserUpdate(q)
    BY <1>0, <1>3, <2>4 DEF GetUser, UserUpdate, Last, Goto
  <2>5. CASE CapAdd(q) \/ CapUpdate(q)
    BY <1>0, <1>3, <2>5 DEF CapAdd, CapUpdate, Last, Goto
  <2>6. CASE Fails(q) \/ \E k \in Keys : Generate(q, k)
    BY <1>0, <1>3, <2>6 DEF Fails, Generate, Goto
  <2> QED BY <1>8, <2>1, <2>2, <2>3, <2>4, <2>5, <2>6
<1>9. ASSUME NEW m \in BOOLEAN, NEW own \in BOOLEAN, Start(q, m, own) PROVE GroupsKnown(q)'
  <2>1. proc'[q].at \notin InTeam
    BY <1>0, <1>9 DEF Start, Idle, InTeam, TypeOK
  <2> QED BY <1>3, <2>1
<1>10. ASSUME NEW p \in Procs, p # q, Step(p) \/ \E m, own \in BOOLEAN : Start(p, m, own)
       PROVE  proc'[q] = proc[q]
  BY <1>0, <1>10 DEF Step, Start, SharedNew, UserNew, TeamNew, MemberAdd, Resolve, TeamInfo,
                     TeamUnreadable, TeamUpdate, Attached, GetUser, UserUpdate, CapAdd, CapUpdate,
                     Generate, Fails, Goto, TypeOK
<1>11. CASE Script \/ Admin \/ UNCHANGED vars
  BY <1>2, <1>11 DEF Script, Migrate, MigrateCreate, MigrateConfirm, MigrateMove, MigrateSkips,
                     MigrateEnds, MigrateList, MigrateCheck, Admin, AttachByHand, OpenByHand,
                     GiveToAch, vars
<1> QED
  BY <1>2, <1>4, <1>5, <1>6, <1>7, <1>8, <1>9, <1>10, <1>11 DEF Next, Step

(* "Never removes a group" (ensure_personal_team) holds where the race of  *)
(* README, Findings, is excluded: when no two calls, and no call and the   *)
(* administrator, attach groups at the same time; whatever else overlaps,  *)
(* fails or is cut short.                                                  *)
THEOREM GroupsGrowWithoutOverlap ==
  Spec /\ []OneAttach /\ [][ByHandApart]_vars => GroupsOnlyGrow
<1>1. Init => GroupsRead
  <2> SUFFICES ASSUME Init PROVE GroupsRead
    OBVIOUS
  <2>1. team.groups = {}
    <3>1. NoTeam.groups = {} /\ [OurTeam EXCEPT !.ours = FALSE, !.closed = FALSE].groups = {}
      BY DEF NoTeam, OurTeam
    <3> QED BY <3>1 DEF Init
  <2> QED BY <2>1 DEF GroupsRead, GroupsKnown
<1>2. IInv /\ GroupsRead /\ OneAttach /\ [Next]_vars /\ [ByHandApart]_vars => GroupsRead'
  BY StepGroupsKnown
<1>3. IInv /\ GroupsRead /\ OneAttach /\ [Next]_vars /\ [ByHandApart]_vars
        => [team.groups \subseteq team'.groups]_vars
  BY StepGroups
<1> QED
  BY <1>1, <1>2, <1>3, Inductive, PTL DEF Spec, GroupsOnlyGrow
=============================================================================
