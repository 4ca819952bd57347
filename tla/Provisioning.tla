---------------------------- MODULE Provisioning ----------------------------
(***************************************************************************)
(* ensure_team_and_user, ensure_personal_team and generate_litellm_key of  *)
(* src/api/app/litellm_client.py, for one user: the user row, the personal *)
(* team, its access groups and the keys in it.  Sign-ins and mints of that *)
(* user run at the same time on any replica, next to an administrator in   *)
(* LiteLLM's own UI and to scripts/migrate-personal-teams.py.  Every call  *)
(* to LiteLLM is one step; LiteLLM executes each atomically.  A step that  *)
(* fails, is applied with its answer lost, or is cut short by a crash is a *)
(* Fails before or after it.  The factory configuration has a user budget; *)
(* teams and users are not deleted.                                        *)
(***************************************************************************)
EXTENDS Naturals

CONSTANTS Procs,      \* sign-ins and mints in flight
          Groups,     \* unified access groups
          Baseline,   \* default and per-user groups of the configuration
          Sso,        \* groups of the user's SSO groups, known at sign-in only
          Known,      \* groups that exist in LiteLLM
          Keys

ASSUME ProvisioningAssumption == Baseline \subseteq Groups /\ Sso \subseteq Groups
                                 /\ Known \subseteq Groups

VARIABLES team,      \* the team with the user's personal team id
          shared,    \* does the shared team exist?
          user,      \* the user row
          member,    \* is the user a member of the personal team?
          key,       \* key[k]: where key k lives
          row,       \* row[k]: what else /key/list says of it
          proc,      \* the sign-ins and mints
          script,    \* the migration script: its next call, its plan and its key
          capWrites, \* history: how often the per-member cap was written, up to 2
          arrived    \* history: keys put in a team of ach since the script listed

litellm == <<team, shared, user, member, key, row>>
vars == <<litellm, proc, script, capWrites, arrived>>

(* closed: the deny-all object_permission. *)
Team    == [exists : BOOLEAN, ours : BOOLEAN, closed : BOOLEAN,
            groups : SUBSET Groups]
NoTeam  == [exists |-> FALSE, ours |-> FALSE, closed |-> FALSE, groups |-> {}]
OurTeam == [exists |-> TRUE, ours |-> TRUE, closed |-> TRUE, groups |-> {}]

(* ident: user_email is set; budget: every factory field is. *)
User    == [exists : BOOLEAN, ident : BOOLEAN, budget : BOOLEAN]
NoUser  == [exists |-> FALSE, ident |-> FALSE, budget |-> FALSE]
NewUser == [exists |-> TRUE, ident |-> TRUE, budget |-> TRUE]

(* A key is in the shared or the personal team, in one of the sibling      *)
(* system ach, or elsewhere.  prefixed: its alias or token starts with     *)
(* pkid_ or ekid_; ours: metadata.source is token-factory; owned: user_id  *)
(* is an email.                                                            *)
Places == {"none", "shared", "personal", "ach", "other"}
Row    == [prefixed : BOOLEAN, ours : BOOLEAN, owned : BOOLEAN]
NoRow  == [prefixed |-> FALSE, ours |-> FALSE, owned |-> FALSE]
OurRow == [prefixed |-> FALSE, ours |-> TRUE, owned |-> TRUE]

Steps == {"idle", "shared_new", "user_new", "team_new", "member_add", "resolve", "team_info",
          "team_update", "get_user", "user_update", "cap_add", "cap_update", "generate"}

(* The locals of a call: does it mint, has it a personal team, was the user *)
(* there, may it reassert the baseline, the groups it has read.             *)
Proc == [at : Steps, mint : BOOLEAN, personal : BOOLEAN, existed : BOOLEAN, ours : BOOLEAN,
         current : SUBSET Groups]
Idle == [at |-> "idle", mint |-> FALSE, personal |-> FALSE, existed |-> FALSE, ours |-> FALSE,
         current |-> {}]

TypeOK == /\ team \in Team /\ shared \in BOOLEAN /\ user \in User /\ member \in BOOLEAN
          /\ key \in [Keys -> Places]
          /\ row \in [Keys -> Row]
          /\ proc \in [Procs -> Proc]
          /\ script \in [at : {"idle", "check", "apply", "create", "confirm", "move"},
                         plan : SUBSET Keys, known : BOOLEAN, key : SUBSET Keys]
          /\ capWrites \in 0..2
          /\ arrived \in SUBSET Keys

Resting == [at |-> "idle", plan |-> {}, known |-> FALSE, key |-> {}]

(* A team of that id may be somebody else's, a user row may predate us. *)
Init == /\ team \in {NoTeam, [OurTeam EXCEPT !.ours = FALSE, !.closed = FALSE]}
        /\ user \in {NoUser, [NewUser EXCEPT !.budget = FALSE]}
        /\ key \in [Keys -> Places \ {"personal"}]
        /\ row \in [Keys -> Row]
        /\ \A k \in Keys : key[k] = "none" => row[k] = NoRow
        /\ shared = (\E k \in Keys : key[k] = "shared")
        /\ member = FALSE
        /\ proc = [p \in Procs |-> Idle]
        /\ script = Resting
        /\ capWrites = 0
        /\ arrived = {}

At(p, step) == proc[p].at = step
Goto(p, step) == proc' = [proc EXCEPT ![p] = IF step = "idle" THEN Idle ELSE [@ EXCEPT !.at = step]]

(* access_groups_for_user and resolve_access_group_ids: a mint knows no SSO *)
(* groups, a name LiteLLM does not know is skipped.                         *)
Wanted(p) == (IF proc[p].mint THEN Baseline ELSE Baseline \cup Sso) \cap Known

(* What follows the backfill, and the personal team. *)
Last(p) == IF proc[p].mint THEN "generate" ELSE "idle"
AfterTeam(p) == IF proc[p].existed THEN "get_user" ELSE Last(p)
----------------------------------------------------------------------------
(* Mutant: the team before the user. *)
StartTeamFirst(p, m, own) ==
    /\ At(p, "idle")
    /\ proc' = [proc EXCEPT ![p] = [Idle EXCEPT !.at = IF own THEN "team_new" ELSE "shared_new",
                                                !.mint = m, !.personal = own]]
    /\ UNCHANGED <<litellm, script, capWrites, arrived>>

(* A sign-in, or the mint of a key; with personal teams, or without (the   *)
(* flag is off, or the caller names a team).                               *)
Start(p, m, own) ==
    /\ At(p, "idle")
    /\ proc' = [proc EXCEPT ![p] = [Idle EXCEPT !.at = IF own THEN "user_new" ELSE "shared_new",
                                                !.mint = m, !.personal = own]]
    /\ UNCHANGED <<litellm, script, capWrites, arrived>>

(* POST /team/new for the shared team. *)
SharedNew(p) ==
    /\ At(p, "shared_new")
    /\ shared' = TRUE
    /\ Goto(p, "user_new")
    /\ UNCHANGED <<team, user, member, key, row, script, capWrites, arrived>>

AfterUser(p, there) == IF proc[p].personal THEN "team_new"
                       ELSE IF there THEN "get_user" ELSE "cap_add"

(* Mutant: "already exists" is taken for a creation. *)
UserNewForgets(p) ==
    /\ At(p, "user_new")
    /\ user' = IF user.exists THEN user ELSE NewUser
    /\ proc' = [proc EXCEPT ![p].existed = FALSE, ![p].at = AfterUser(p, FALSE)]
    /\ UNCHANGED <<team, shared, member, key, row, script, capWrites, arrived>>

(* POST /user/new, with the factory budget; "already exists" is success. *)
UserNew(p) ==
    /\ At(p, "user_new")
    /\ user' = IF user.exists THEN user ELSE NewUser
    /\ proc' = [proc EXCEPT ![p].existed = user.exists, ![p].at = AfterUser(p, user.exists)]
    /\ UNCHANGED <<team, shared, member, key, row, script, capWrites, arrived>>

(* Mutant: a failed create falls through. *)
TeamNewFallsThrough(p) ==
    /\ At(p, "team_new")
    /\ team' \in {team, IF team.exists THEN team ELSE OurTeam}
    /\ proc' = [proc EXCEPT ![p].ours = ~team.exists, ![p].at = "member_add"]
    /\ UNCHANGED <<shared, user, member, key, row, script, capWrites, arrived>>

(* POST /team/new for the personal team, closed; "already exists" is an    *)
(* adoption.  A team this call made is ours.                               *)
TeamNew(p) ==
    /\ At(p, "team_new")
    /\ team' = IF team.exists THEN team ELSE OurTeam
    /\ proc' = [proc EXCEPT ![p].ours = ~team.exists, ![p].at = "member_add"]
    /\ UNCHANGED <<shared, user, member, key, row, script, capWrites, arrived>>

(* POST /team/member_add: a missing user row is made, without identity. *)
MemberAdd(p) ==
    /\ At(p, "member_add")
    /\ member' = TRUE
    /\ user' = IF user.exists THEN user ELSE [NoUser EXCEPT !.exists = TRUE]
    /\ Goto(p, "resolve")
    /\ UNCHANGED <<team, shared, key, row, script, capWrites, arrived>>

(* GET /v1/access_group; a team this call made needs no read. *)
Resolve(p) ==
    /\ At(p, "resolve")
    /\ Goto(p, IF proc[p].ours THEN "team_update" ELSE "team_info")
    /\ UNCHANGED <<litellm, script, capWrites, arrived>>

(* GET /team/info of an adopted team: its groups and its stamp. *)
TeamInfo(p) ==
    /\ At(p, "team_info")
    /\ proc' = [proc EXCEPT ![p].current = team.groups, ![p].ours = team.ours,
                            ![p].at = "team_update"]
    /\ UNCHANGED <<litellm, script, capWrites, arrived>>

(* Unreadable: the attach is skipped. *)
TeamUnreadable(p) ==
    /\ At(p, "team_info")
    /\ Goto(p, AfterTeam(p))
    /\ UNCHANGED <<litellm, script, capWrites, arrived>>

Attached(p) == [proc EXCEPT ![p] = IF AfterTeam(p) = "idle" THEN Idle
                                   ELSE [@ EXCEPT !.current = {}, !.ours = FALSE,
                                                  !.at = AfterTeam(p)]]

(* Mutant: the closed baseline is written to any team. *)
TeamUpdateAlways(p) ==
    /\ At(p, "team_update")
    /\ team' = [team EXCEPT !.groups = proc[p].current \cup Wanted(p), !.closed = TRUE]
    /\ proc' = Attached(p)
    /\ UNCHANGED <<shared, user, member, key, row, script, capWrites, arrived>>

(* POST /team/update: the groups that were read and the wanted ones; the   *)
(* closed baseline only on a team that is ours.                            *)
TeamUpdate(p) ==
    /\ At(p, "team_update")
    /\ team' = [team EXCEPT !.groups = proc[p].current \cup Wanted(p),
                            !.closed = @ \/ proc[p].ours]
    /\ proc' = Attached(p)
    /\ UNCHANGED <<shared, user, member, key, row, script, capWrites, arrived>>

(* The backfill reads the row, and leaves it alone when nothing is empty. *)
GetUser(p) ==
    /\ At(p, "get_user")
    /\ Goto(p, IF user = NewUser THEN Last(p) ELSE "user_update")
    /\ UNCHANGED <<litellm, script, capWrites, arrived>>

(* POST /user/update with the fields that were empty. *)
UserUpdate(p) ==
    /\ At(p, "user_update")
    /\ user' = NewUser
    /\ Goto(p, Last(p))
    /\ UNCHANGED <<team, shared, member, key, row, script, capWrites, arrived>>

(* ensure_team_member_budget, only for a user this call created: add, then *)
(* update.                                                                 *)
CapAdd(p) ==
    /\ At(p, "cap_add")
    /\ capWrites' = IF capWrites < 2 THEN capWrites + 1 ELSE 2
    /\ Goto(p, "cap_update")
    /\ UNCHANGED <<litellm, script, arrived>>

CapUpdate(p) ==
    /\ At(p, "cap_update")
    /\ Goto(p, Last(p))
    /\ UNCHANGED <<litellm, script, capWrites, arrived>>

(* POST /key/generate: LiteLLM takes a team id that does not exist. *)
Generate(p, k) ==
    /\ At(p, "generate")
    /\ key[k] = "none"
    /\ key' = [key EXCEPT ![k] = IF proc[p].personal THEN "personal" ELSE "shared"]
    /\ row' = [row EXCEPT ![k] = OurRow]
    /\ Goto(p, "idle")
    /\ UNCHANGED <<team, shared, user, member, script, capWrites, arrived>>

(* An error, an answer lost or a crash ends the call. *)
Fails(p) ==
    /\ ~At(p, "idle")
    /\ Goto(p, "idle")
    /\ UNCHANGED <<litellm, script, capWrites, arrived>>
----------------------------------------------------------------------------
(* Mutant: the source alone makes a key ours. *)
ClassifyBySource(k) == row[k].ours /\ row[k].owned /\ key[k] # "personal"

(* classify: the exclusions of ach, the source, an owner, and not there    *)
(* already.  (A prefix that makes the destination a team of ach leaves the *)
(* script nothing to do.)                                                  *)
Classify(k) == /\ ~row[k].prefixed
               /\ key[k] # "ach"
               /\ row[k].ours
               /\ row[k].owned
               /\ key[k] # "personal"

(* The script lists the keys and classifies the rows: its plan. *)
MigrateList ==
    /\ script.at = "idle"
    /\ LET plan == {k \in Keys : key[k] # "none" /\ Classify(k)}
       IN  /\ plan # {}
           /\ script' = [Resting EXCEPT !.at = "check", !.plan = plan]
    /\ arrived' = {}
    /\ UNCHANGED <<litellm, proc, capWrites>>

(* known_teams: does the destination exist? *)
MigrateCheck ==
    /\ script.at = "check"
    /\ script' = [script EXCEPT !.at = "apply", !.known = team.exists]
    /\ UNCHANGED <<litellm, proc, capWrites, arrived>>

(* The next row of the plan. *)
Migrate(k) ==
    /\ script.at = "apply"
    /\ k \in script.plan
    /\ script' = [script EXCEPT !.at = IF script.known THEN "confirm" ELSE "create",
                                !.plan = @ \ {k}, !.key = {k}]
    /\ UNCHANGED <<litellm, proc, capWrites, arrived>>

(* create_team: closed, and without the groups.  The script does not take  *)
(* the answer of /team/new for a team, and here it is not always one.      *)
MigrateCreate ==
    /\ script.at = "create"
    /\ team' \in {team, IF team.exists THEN team ELSE OurTeam}
    /\ script' = [script EXCEPT !.at = "confirm"]
    /\ UNCHANGED <<shared, user, member, key, row, proc, capWrites, arrived>>

(* The script is done with its key. *)
NextRow == [script EXCEPT !.at = "apply", !.key = {}]

(* The team is confirmed by /team/info whatever /team/new claimed. *)
MigrateConfirm ==
    /\ script.at = "confirm"
    /\ script' = IF team.exists THEN [script EXCEPT !.at = "move", !.known = TRUE] ELSE NextRow
    /\ UNCHANGED <<litellm, proc, capWrites, arrived>>

(* POST /key/update, whatever has become of the key since it was listed;   *)
(* LiteLLM refuses a team the owner is not a member of.                    *)
MigrateMove ==
    /\ script.at = "move"
    /\ key' = [k \in Keys |-> IF k \in script.key /\ member THEN "personal" ELSE key[k]]
    /\ script' = NextRow
    /\ UNCHANGED <<team, shared, user, member, row, proc, capWrites, arrived>>

(* A call fails: its key is skipped. *)
MigrateSkips ==
    /\ script.at # "idle"
    /\ \/ script.at = "check" /\ \E k \in script.plan : script' = [script EXCEPT !.plan = @ \ {k}]
       \/ script.key # {} /\ script' = NextRow
    /\ UNCHANGED <<litellm, proc, capWrites, arrived>>

(* The script has gone through its plan, or dies. *)
MigrateEnds ==
    /\ script.at # "idle"
    /\ script' = Resting
    /\ arrived' = {}
    /\ UNCHANGED <<litellm, proc, capWrites>>
----------------------------------------------------------------------------
(* The administrator, in LiteLLM: attaches a group, opens the permissions, *)
(* puts a key in a team of ach.                                            *)
AttachByHand(g) ==
    /\ team.exists
    /\ g \in Known \ team.groups
    /\ team' = [team EXCEPT !.groups = @ \cup {g}]
    /\ UNCHANGED <<shared, user, member, key, row, proc, script, capWrites, arrived>>

OpenByHand ==
    /\ team.exists
    /\ team.closed
    /\ team' = [team EXCEPT !.closed = FALSE]
    /\ UNCHANGED <<shared, user, member, key, row, proc, script, capWrites, arrived>>

GiveToAch(k) ==
    /\ key[k] \in {"shared", "personal", "other"}
    /\ key' = [key EXCEPT ![k] = "ach"]
    /\ arrived' = arrived \cup {k}
    /\ UNCHANGED <<team, shared, user, member, row, proc, script, capWrites>>

Step(p) == \/ SharedNew(p) \/ UserNew(p) \/ TeamNew(p) \/ MemberAdd(p) \/ Resolve(p)
           \/ TeamInfo(p) \/ TeamUnreadable(p) \/ TeamUpdate(p) \/ GetUser(p)
           \/ UserUpdate(p) \/ CapAdd(p) \/ CapUpdate(p)
           \/ \E k \in Keys : Generate(p, k)
           \/ Fails(p)

Script == \/ MigrateList \/ MigrateCheck
          \/ \E k \in Keys : Migrate(k)
          \/ MigrateCreate \/ MigrateConfirm \/ MigrateMove \/ MigrateSkips \/ MigrateEnds

Admin == \/ \E g \in Groups : AttachByHand(g)
         \/ OpenByHand
         \/ \E k \in Keys : GiveToAch(k)

Next == \/ \E p \in Procs, m, own \in BOOLEAN : Start(p, m, own)
        \/ \E p \in Procs : Step(p)
        \/ Script
        \/ Admin

Spec == Init /\ [][Next]_vars
----------------------------------------------------------------------------
(* "LiteLLM silently accepts a nonexistent team_id and mints a FAIL-OPEN   *)
(* key": no key of ours is ever minted into, or moved into, a team that    *)
(* does not exist, wherever a sign-in or the script is cut short.          *)
NoFailOpen == \A k \in Keys : /\ key[k] = "personal" => team.exists
                              /\ key[k] = "shared" => shared

(* "The destructive half of the attach" (_stamped_as_ours): the            *)
(* permissions of a team that is not ours are never overwritten, though    *)
(* its id is the user's and calls that adopt and create it race.           *)
ForeignTeamKept == [][team.exists /\ ~team.ours => team'.closed = team.closed]_vars

(* "User BEFORE team" (ensure_team_and_user): no sign-in, however cut      *)
(* short, leaves a user row without an identity, which /team/member_add    *)
(* would make.                                                             *)
NeverBare == user.exists => user.ident

(* D-21 (ensure_team_and_user): the per-member cap is written by one call  *)
(* only, the one that created the user, however many run at once.          *)
OneCapWriter == capWrites <= 1

(* A key that changes its place to the personal team, all that the script  *)
(* does to keys.                                                           *)
Moved(k) == key[k] \notin {"none", "personal"} /\ key'[k] = "personal"

(* The ownership rules of migrate-personal-teams.py at the write, several  *)
(* calls after the rows were classified: only a key of ours without the    *)
(* sibling's prefix is moved, and out of a team of the sibling only one    *)
(* that got there after the listing, though other rows fail and are        *)
(* skipped and the script is run again.                                    *)
OnlyOursMoves == [][\A k \in Keys : Moved(k) =>
    /\ row[k] = OurRow
    /\ key[k] = "ach" => k \in arrived]_vars

(* "NEVER touch  keys currently in a team whose id starts with 'ach-'": a  *)
(* key in such a team stays there.  The script's plan is older than its    *)
(* writes, and breaks it (README, Findings).                               *)
AchTeamsKept == [][\A k \in Keys : key[k] = "ach" => key'[k] = "ach"]_vars

(* "Never removes a group" (ensure_personal_team): the attached groups     *)
(* only grow, also when an administrator attaches one during a sign-in.    *)
(* The read-merge-write of the code breaks it (README, Findings).          *)
GroupsOnlyGrow == [][team.groups \subseteq team'.groups]_vars
=============================================================================
