---------------------------- MODULE HostFSPolicy ----------------------------
(***************************************************************************)
(* What a guest may see of the host: the HostFS rules of a profile, the    *)
(* policy a run builds from them once, and the broker service that answers *)
(* stat, read, list and write requests by it, over a small tree with one   *)
(* symbolic link the host may point elsewhere at any time.                 *)
(*                                                                         *)
(* A path is the sequence of its names; a glob is a path with "*" for a    *)
(* whole name, which matches no dot name.  The policy keeps the time it    *)
(* was built at, so a rule that lapses during the run goes on counting;    *)
(* only a host application launch looks at the clock again.                *)
(***************************************************************************)
EXTENDS Integers, Sequences, SequencesExt, FiniteSets

CONSTANTS HfsGrantKinds,  \* the kinds of grant an operator adds
          HfsDenyKinds,   \* the kinds of deny rule
          HfsRulePaths,   \* the paths rules are written for
          HfsLapses,      \* whether grants may expire during the run
          HfsDenyOps,     \* the operation sets a deny rule may name
          HfsTargets,     \* where the link may point
          MaxHfsRules,    \* bound on the grants, and on the denies, of a profile
          MaxHfsAsks,     \* bound on the guest's requests
          MaxHfsRelinks   \* bound on how often the host moves the link

VARIABLES hfsRules,    \* the profile's rules, as parsed
          hfsPolicy,   \* the run's effective policy, once built
          hfsLink,     \* what the link points to; <<>> for a plain file
          hfsLapsed,   \* the expiring rules have expired by now
          hfsSession,  \* the files the operator approved for this session
          hfsStaged,   \* the paths with a staged write
          hfsOpen,     \* an authorized read about to be opened
          hfsAnswer,   \* the last answer
          hfsBudget    \* requests and relinks left

hfsVars == <<hfsRules, hfsPolicy, hfsLink, hfsLapsed, hfsSession, hfsStaged,
             hfsOpen, hfsAnswer, hfsBudget>>

-----------------------------------------------------------------------------
(* The tree: /d with a file, the link and a credential file, and the store. *)

HfsStore == <<"s">>
HfsLinkPath == <<"d", "g">>
HfsSecret == <<"d", ".h">>
HfsDirs == {<<>>, <<"d">>, HfsStore}
HfsFiles == {<<"d", "f">>, HfsSecret, <<"s", "k">>}
HfsRequests == {<<>>, <<"d">>, <<"d", "f">>, HfsLinkPath, HfsSecret, <<"d", "g", "k">>,
                <<"s">>, <<"s", "k">>}
DotNames == {".h"}
NoSuchPath == <<"nowhere">>

Dir(p) == IF p = <<>> THEN p ELSE Front(p)
isAncestorPath(parent, child) == IsStrictPrefix(parent, child)
pathInRoot(p, root) == IsPrefix(root, p)

(* filepath.EvalSymlinks; NoSuchPath when there is nothing there.           *)
EvalSymlinks(p) ==
  LET real == IF IsPrefix(HfsLinkPath, p) /\ hfsLink # <<>>
              THEN hfsLink \o SubSeq(p, 3, Len(p)) ELSE p
      plain == real = HfsLinkPath /\ hfsLink = <<>>
  IN IF real \in HfsDirs \cup HfsFiles \/ plain THEN real ELSE NoSuchPath

Exists(p) == EvalSymlinks(p) # NoSuchPath
IsDir(p) == EvalSymlinks(p) \in HfsDirs
IsRegular(p) == Exists(p) /\ ~IsDir(p)
isSymlink(p) == p = HfsLinkPath /\ hfsLink # <<>>
ReadDir(p) ==
  LET d == EvalSymlinks(p)
  IN {Last(q) : q \in {r \in HfsDirs \cup HfsFiles \cup {HfsLinkPath} : r # <<>> /\ Dir(r) = d}}

-----------------------------------------------------------------------------
(* Rules.                                                                   *)

WriteOps == {"write", "create", "delete"}
HfsOps == {"discover", "stat", "read", "list"} \cup WriteOps

(* ParseRuleSpec: the operations and the scope a kind stands for.           *)
kindOps(kind) ==
  CASE kind \in {"see", "see-dir", "see-tree"} -> {"discover"}
    [] kind \in {"stat", "stat-glob"} -> {"stat"}
    [] kind \in {"read", "read-glob"} -> {"read"}
    [] kind \in {"dir", "tree"} -> {"read", "list"}
    [] OTHER -> WriteOps
kindScope(kind) ==
  CASE kind \in {"see", "stat", "read", "overlay"} -> "exact"
    [] kind \in {"stat-glob", "read-glob", "overlay-glob"} -> "glob"
    [] kind \in {"see-dir", "dir", "overlay-dir"} -> "dir"
    [] OTHER -> "recursive"

ParseRuleSpec(kind, p, lapses) ==
  [path |-> IF kindScope(kind) = "glob" THEN Append(Dir(p), "*") ELSE p,
   scope |-> kindScope(kind), ops |-> kindOps(kind),
   overlay |-> kindOps(kind) = WriteOps, lapses |-> lapses]

nameMatches(pattern, name) == pattern = name \/ (pattern = "*" /\ name \notin DotNames)
globMatches(pattern, p) ==
  /\ Len(pattern) = Len(p)
  /\ \A i \in 1..Len(p) : nameMatches(pattern[i], p[i])
globCouldMatchChildOf(pattern, dir) ==
  /\ Len(dir) < Len(pattern)
  /\ \A i \in 1..Len(dir) : nameMatches(pattern[i], dir[i])
globStaticBase(pattern) == Dir(pattern)

ruleCoversPath(rule, p) ==
  CASE rule.scope = "exact" -> rule.path = p
    [] rule.scope = "glob" -> globMatches(rule.path, p)
    [] rule.scope = "dir" -> rule.path = p \/ (p # <<>> /\ Dir(p) = rule.path)
    [] rule.scope = "recursive" -> pathInRoot(p, rule.path)

ruleCoversReservedRoot(rule, root) ==
  \/ ruleCoversPath(rule, root)
  \/ pathInRoot(rule.path, root)
  \/ /\ rule.scope = "glob"
     /\ \/ pathInRoot(globStaticBase(rule.path), root)
        \/ globCouldMatchChildOf(rule.path, root)

discoverOnlyRule(rule) == rule.ops = {"discover"}

(* read and list bring stat with them, in a grant and in a deny.            *)
withStat(ops) == IF ops \cap {"read", "list"} # {} THEN ops \cup {"stat"} ELSE ops
normalizeGrantOps(rule) == IF rule.overlay THEN rule.ops ELSE withStat(rule.ops)
normalizeDenyOps(ops) == withStat(ops)

(* normalizeRule refuses a grant that reaches into the store, unless it     *)
(* only discovers.                                                          *)
acceptsGrant(rule) == ruleCoversReservedRoot(rule, HfsStore) => discoverOnlyRule(rule)

exactGrantAllowsParentList(rule, p) ==
  rule.scope = "exact" /\ Dir(rule.path) = p /\ rule.ops \cap {"read", "stat"} # {}
globAllowsParentList(rule, p) ==
  /\ rule.scope = "glob" /\ rule.ops \cap {"read", "stat"} # {}
  /\ globCouldMatchChildOf(rule.path, p)
ruleAllowsSyntheticList(rule, p) ==
  exactGrantAllowsParentList(rule, p) \/ globAllowsParentList(rule, p)

ruleMatches(rule, op, p, deny) ==
  /\ ~deny => op \in rule.ops \/ (op = "list" /\ ruleAllowsSyntheticList(rule, p))
  /\ deny /\ rule.ops # {} => op \in rule.ops
  /\ CASE rule.scope = "exact" ->
            p = rule.path \/ (~deny /\ op = "list" /\ exactGrantAllowsParentList(rule, p))
       [] rule.scope = "glob" ->
            IF op = "list" THEN ~deny /\ globAllowsParentList(rule, p)
                           ELSE globMatches(rule.path, p)
       [] rule.scope = "dir" -> p = rule.path \/ (op # "list" /\ p # <<>> /\ Dir(p) = rule.path)
       [] rule.scope = "recursive" -> pathInRoot(p, rule.path)

-----------------------------------------------------------------------------
(* The policy of a run.                                                     *)

(* EvalSymlinks of the parent only: a link itself may be discovered.        *)
visibilityPolicyPath(p) ==
  IF p # <<>> /\ Exists(Dir(p)) THEN Append(EvalSymlinks(Dir(p)), Last(p)) ELSE p

canonicalizeRule(rule) ==
  [rule EXCEPT !.path =
     CASE rule.scope = "glob" ->
            IF Exists(Dir(@)) THEN Append(EvalSymlinks(Dir(@)), Last(@)) ELSE @
       [] rule.scope # "glob" /\ "discover" \in rule.ops -> visibilityPolicyPath(@)
       [] OTHER -> IF Exists(@) THEN EvalSymlinks(@) ELSE @]

(* Any discovery grant hides the credential roots from discovery.           *)
implicitBroadDiscoveryDenies(grants) ==
  IF \E g \in grants : "discover" \in g.ops
  THEN {[path |-> r, scope |-> "recursive", ops |-> {"discover"}, overlay |-> FALSE,
         lapses |-> FALSE] : r \in {HfsSecret, HfsStore}}
  ELSE {}

(* The rules that have not expired, in their order.                         *)
buildSourcePolicy(rules, lapsed) ==
  LET current(r) == ~(r.lapses /\ lapsed)
      granting(r) == [r EXCEPT !.ops = normalizeGrantOps(r)]
      denying(r) == [r EXCEPT !.ops = normalizeDenyOps(r.ops)]
      each(F(_), rs) == [i \in DOMAIN rs |-> F(rs[i])]
  IN [grants |-> each(granting, SelectSeq(rules.grants, current)),
      deny |-> each(denying, SelectSeq(rules.deny, current))]

BuildPolicy ==
  LET p == buildSourcePolicy(hfsRules, hfsLapsed)
      grants == [i \in DOMAIN p.grants |-> canonicalizeRule(p.grants[i])]
      denied == ToSet(p.deny) \cup implicitBroadDiscoveryDenies(ToSet(p.grants))
  IN [built |-> TRUE, grants |-> grants, deny |-> {canonicalizeRule(r) : r \in denied}]

(* The policy as a host application launch reads it, by the clock of now.   *)
PolicyNow ==
  [hfsPolicy EXCEPT !.grants = SelectSeq(@, LAMBDA r : ~(r.lapses /\ hfsLapsed))]

reserved(p) == pathInRoot(p, HfsStore)
NoRule == [path |-> NoSuchPath, scope |-> "none", ops |-> {}, overlay |-> FALSE, lapses |-> FALSE]

(* A deny wins; among the grants the first that matches decides.            *)
firstGrant(matching) ==
  IF matching # <<>> THEN [effect |-> "allow", rule |-> matching[1]]
                     ELSE [effect |-> "none", rule |-> NoRule]
DecideBy(policy, op, p) ==
  IF reserved(p) \/ \E r \in policy.deny : ruleMatches(r, op, p, TRUE)
  THEN [effect |-> "deny", rule |-> NoRule]
  ELSE firstGrant(SelectSeq(policy.grants, LAMBDA r : ruleMatches(r, op, p, FALSE)))
Decide(op, p) == DecideBy(hfsPolicy, op, p)

combinedDecision(requested, canonical) ==
  CASE requested.effect = "deny" -> requested
    [] canonical.effect = "deny" -> canonical
    [] requested.effect = "allow" -> requested
    [] OTHER -> IF canonical.effect = "allow" THEN canonical ELSE requested

(* How much of a path may be seen.  A tree may be enumerated all through, a *)
(* directory only at its root.                                              *)
visibilityOf(p, pp, content, discover) ==
  LET by == discover.rule
      enumerable == by.scope = "recursive" \/ (by.scope = "dir" /\ pp = by.path)
      seen(state, explicit, denied, enum) ==
        [state |-> state, explicit |-> explicit, denied |-> denied, enumerable |-> enum]
  IN CASE reserved(p) \/ reserved(pp) -> seen("hidden", FALSE, FALSE, FALSE)
       [] content.effect = "allow" ->
            seen("content", discover.effect # "none", discover.effect = "deny", FALSE)
       [] discover.effect = "deny" -> seen("hidden", TRUE, TRUE, FALSE)
       [] discover.effect = "none" -> seen("hidden", FALSE, FALSE, FALSE)
       [] OTHER -> seen(IF enumerable THEN "enumerable" ELSE "exact", TRUE, FALSE, enumerable)
VisibilityBy(policy, p) ==
  LET decision(op, pp) == combinedDecision(DecideBy(policy, op, p), DecideBy(policy, op, pp))
      by(pp) == visibilityOf(p, pp, decision("stat", pp), decision("discover", pp))
  IN by(visibilityPolicyPath(p))
Visibility(p) == VisibilityBy(hfsPolicy, p)
visible(v) == v.explicit /\ v.state # "hidden"

-----------------------------------------------------------------------------
(* The service.                                                             *)

(* A path decided as it is named, whatever it resolves to.                  *)
authorizeAsNamed(op, p) ==
  IF Exists(p) /\ Decide(op, p).effect = "allow" THEN EvalSymlinks(p) ELSE NoSuchPath

(* The path resolved, when the rules let op through on the requested and on *)
(* the resolved path; NoSuchPath otherwise.                                 *)
authorizePath(op, p) ==
  LET real == EvalSymlinks(p)
  IN IF /\ real # NoSuchPath
        /\ Decide(op, p).effect # "deny"
        /\ Decide(op, real).effect = "allow"
     THEN real ELSE NoSuchPath

pathVisible(op, p) == authorizePath(op, p) # NoSuchPath
entryVisible(p) ==
  pathVisible("stat", p) \/ pathVisible(IF IsDir(p) THEN "list" ELSE "read", p)

(* The list is granted as such, not as the parent of a granted file.        *)
directlyAuthorizedPath(op, p) ==
  LET real == authorizePath(op, p)
  IN real # NoSuchPath /\ op \in Decide(op, real).rule.ops

(* Whether an approval of the session could let a path be read: visible by  *)
(* discovery as named and as resolved, not denied, a regular file.          *)
readGrantCandidate(p) ==
  LET real == EvalSymlinks(p)
  IN CASE ~visible(Visibility(p)) -> "hidden"
       [] ~Exists(p) -> "hidden"
       [] real # p /\ ~visible(Visibility(real)) -> "hidden"
       [] "deny" \in {Decide("read", p).effect, Decide("read", real).effect} -> "denied"
       [] OTHER -> IF IsRegular(real) THEN "candidate" ELSE "denied"

activeSessionRead(p) ==
  readGrantCandidate(p) = "candidate" /\ <<p, EvalSymlinks(p)>> \in hfsSession

readDeniedError(p) ==
  LET c == readGrantCandidate(p) IN IF c = "candidate" THEN "approval-required" ELSE c

candidates(p) == {p} \cup (IF Exists(p) THEN {EvalSymlinks(p)} ELSE {})

syntheticDir(p) ==
  \E g \in ToSet(hfsPolicy.grants), c \in candidates(p) :
     /\ LET v == Visibility(c)
        IN ~("discover" \in g.ops /\ v.denied /\ v.state = "hidden")
     /\ \/ g.scope = "glob" /\ globCouldMatchChildOf(g.path, c)
        \/ isAncestorPath(c, g.path)

syntheticEntries(p) ==
  {g.path[Len(c) + 1] : <<g, c>> \in
     {x \in ToSet(hfsPolicy.grants) \X candidates(p) :
        LET child == Append(x[2], x[1].path[Len(x[2]) + 1])
            v == Visibility(child)
        IN /\ x[1].scope # "glob" /\ isAncestorPath(x[2], x[1].path)
           /\ ~v.denied /\ ~("discover" \in x[1].ops /\ v.state = "hidden")}}

listLegacy(dir) ==
  {n \in ReadDir(dir) : LET c == Append(dir, n) IN ~Visibility(c).denied /\ entryVisible(c)}
  \cup syntheticEntries(dir)
  \cup {Last(q) : q \in {r \in hfsStaged : Dir(r) = dir}}

listDiscovered(dir) ==
  {n \in ReadDir(dir) : LET v == Visibility(Append(dir, n)) IN ~v.denied /\ v.state # "hidden"}

NoNames == {}
answered(verb, p, real, outcome, names) ==
  [verb |-> verb, path |-> p, real |-> real, outcome |-> outcome, names |-> names]
NoAnswer == answered("none", NoSuchPath, NoSuchPath, "none", NoNames)

(* A directory that can be listed as granted is; one that is only visible   *)
(* is enumerated; any other shows the grants below it.  The listing refuses *)
(* rather than show part of a directory when it is busy or too large.       *)
listAnswersOf(p, v, real, direct) ==
  LET with(dir, outcome, names) == {answered("list", p, dir, outcome, names)}
      refused(code) == with(NoSuchPath, code, NoNames)
  IN CASE v.state = "hidden" /\ v.explicit -> refused("hidden")
       [] (v.explicit /\ v.state # "hidden" /\ direct) \/ (~v.explicit /\ real # NoSuchPath) ->
            IF IsDir(real) THEN with(real, "ok", listLegacy(real)) ELSE refused("hidden")
       [] v.explicit /\ v.state # "hidden" /\ ~direct ->
            IF ~v.enumerable THEN refused("not-enumerable")
            ELSE refused("incomplete")
                 \cup IF IsDir(p) THEN with(p, "ok", listDiscovered(p)) ELSE {}
       [] OTHER -> IF syntheticDir(p) THEN with(p, "ok", syntheticEntries(p)) ELSE refused("hidden")
listAnswers(p) ==
  listAnswersOf(p, Visibility(p), authorizePath("list", p), directlyAuthorizedPath("list", p))

statAnswer(p) ==
  LET says(outcome) == answered("stat", p, EvalSymlinks(p), outcome, NoNames)
  IN CASE p \in hfsStaged -> says("staged")
       [] p \notin hfsStaged /\ syntheticDir(p) -> says("coarse")
       [] OTHER -> IF pathVisible("stat", p) THEN says("ok")
                   ELSE IF Visibility(p).state = "hidden" THEN says("hidden")
                   ELSE IF activeSessionRead(p) THEN says("ok")
                   ELSE says(IF Exists(p) \/ isSymlink(p) THEN "coarse" ELSE "hidden")

(* A link is never written through; a path reached through a linked         *)
(* directory is decided as resolved.                                        *)
authorizeWriteOf(op, p, real, effect) ==
  LET linked == Exists(p) /\ real # p
      refused(paths) == IF \A q \in paths : visible(Visibility(q)) THEN "unauthorized" ELSE "hidden"
  IN CASE reserved(p) -> "hidden"
       [] ~reserved(p) /\ effect = "deny" -> refused({p})
       [] OTHER -> IF isSymlink(p) THEN "hidden"
                   ELSE IF (IF linked THEN Decide(op, real).effect ELSE effect) = "allow"
                   THEN "allow" ELSE refused(IF linked THEN {p, real} ELSE {p})
authorizeWritePath(op, p) == authorizeWriteOf(op, p, EvalSymlinks(p), Decide(op, p).effect)

(* What may be handed to a host application: a file that may be read, or a  *)
(* tree in which no rule narrows what the whole-tree grant gives.           *)
hostAppTreeDenyRelevant(rule) ==
  rule.ops = {} \/ rule.ops \cap {"discover", "stat", "read", "list"} # {}

hostAppTreeSelectorIntersects(rule, root) ==
  \/ pathInRoot(IF rule.scope = "glob" THEN globStaticBase(rule.path) ELSE rule.path, root)
  \/ rule.scope = "dir" /\ Dir(root) = rule.path
  \/ rule.scope = "recursive" /\ pathInRoot(root, rule.path)
  \/ /\ rule.scope = "glob"
     /\ globMatches(rule.path, root) \/ globCouldMatchChildOf(rule.path, root)

AuthorizesHostAppTree(policy, root) ==
  /\ ~pathInRoot(root, HfsStore) /\ ~pathInRoot(HfsStore, root)
  /\ \A op \in {"read", "list"} : \E g \in ToSet(policy.grants) :
        ~g.overlay /\ g.scope = "recursive" /\ ruleMatches(g, op, root, FALSE)
  /\ \A d \in policy.deny :
        hostAppTreeDenyRelevant(d) => ~hostAppTreeSelectorIntersects(d, root)

resolveHostAppResource(p) ==
  LET real == EvalSymlinks(p)
      op == IF IsDir(real) THEN "list" ELSE "read"
      effects == {DecideBy(PolicyNow, op, p).effect, DecideBy(PolicyNow, op, real).effect}
      allowed == \/ DecideBy(PolicyNow, op, real).effect = "allow"
                 \/ /\ op = "read" /\ <<p, real>> \in hfsSession
                    /\ visible(VisibilityBy(PolicyNow, p))
                    /\ visible(VisibilityBy(PolicyNow, real))
  IN IF /\ Exists(p) /\ ~reserved(p) /\ ~reserved(real)
        /\ "deny" \notin effects
        /\ op = "list" => AuthorizesHostAppTree(PolicyNow, real)
        /\ allowed
     THEN real ELSE NoSuchPath

-----------------------------------------------------------------------------
(* Configuration.                                                           *)

HfsInit ==
  /\ hfsRules = [grants |-> <<>>, deny |-> <<>>]
  /\ hfsPolicy = [built |-> FALSE, grants |-> <<>>, deny |-> {}]
  /\ hfsLink = <<>>
  /\ hfsLapsed = FALSE
  /\ hfsSession = {}
  /\ hfsStaged = {}
  /\ hfsOpen = NoAnswer
  /\ hfsAnswer = NoAnswer
  /\ hfsBudget = [asks |-> MaxHfsAsks, relinks |-> MaxHfsRelinks]

hfsIdle == hfsOpen = NoAnswer
hfsServing == hfsPolicy.built /\ hfsIdle
hfsAsked ==
  /\ hfsBudget.asks > 0
  /\ hfsBudget' = [hfsBudget EXCEPT !.asks = @ - 1]
  /\ UNCHANGED <<hfsRules, hfsPolicy, hfsLink, hfsLapsed>>
hfsFollowUp == UNCHANGED <<hfsRules, hfsPolicy, hfsLink, hfsLapsed, hfsBudget>>

(* profile fs allow / deny, before the run.                                 *)
AddGrant(kind, p, lapses) ==
  LET rule == ParseRuleSpec(kind, p, lapses)
  IN /\ ~hfsPolicy.built
     /\ Len(hfsRules.grants) < MaxHfsRules
     /\ acceptsGrant(rule)
     /\ hfsRules' = [hfsRules EXCEPT !.grants = Append(@, rule)]
     /\ UNCHANGED <<hfsPolicy, hfsLink, hfsLapsed, hfsSession, hfsStaged, hfsOpen, hfsAnswer, hfsBudget>>

AddDeny(kind, p, ops) ==
  LET rule == [ParseRuleSpec(kind, p, FALSE) EXCEPT !.ops = ops]
  IN /\ ~hfsPolicy.built
     /\ Len(hfsRules.deny) < MaxHfsRules
     /\ hfsRules' = [hfsRules EXCEPT !.deny = Append(@, rule)]
     /\ UNCHANGED <<hfsPolicy, hfsLink, hfsLapsed, hfsSession, hfsStaged, hfsOpen, hfsAnswer, hfsBudget>>

LaunchService ==
  /\ ~hfsPolicy.built
  /\ hfsPolicy' = BuildPolicy
  /\ UNCHANGED <<hfsRules, hfsLink, hfsLapsed, hfsSession, hfsStaged, hfsOpen, hfsAnswer, hfsBudget>>

(* The host.                                                                *)
Relink(target) ==
  /\ hfsLink # target
  /\ hfsBudget.relinks > 0
  /\ hfsBudget' = [hfsBudget EXCEPT !.relinks = @ - 1]
  /\ hfsLink' = target
  /\ UNCHANGED <<hfsRules, hfsPolicy, hfsLapsed, hfsSession, hfsStaged, hfsOpen, hfsAnswer>>

Lapse ==
  /\ ~hfsLapsed
  /\ \E r \in ToSet(hfsRules.grants) : r.lapses
  /\ hfsLapsed' = TRUE
  /\ UNCHANGED <<hfsRules, hfsPolicy, hfsLink, hfsSession, hfsStaged, hfsOpen, hfsAnswer, hfsBudget>>

-----------------------------------------------------------------------------
(* Requests of the guest.                                                   *)

Stat(p) ==
  /\ hfsServing
  /\ hfsAnswer' = statAnswer(p)
  /\ hfsAsked /\ UNCHANGED <<hfsSession, hfsStaged, hfsOpen>>

(* Read authorizes first and opens the resolved path afterwards.            *)
Read(p) ==
  LET real == authorizePath("read", p)
      open(r) == /\ hfsOpen' = answered("read", p, r, "open", NoNames)
                 /\ UNCHANGED hfsAnswer
      says(r, outcome) == /\ hfsAnswer' = answered("read", p, r, outcome, NoNames)
                          /\ UNCHANGED hfsOpen
  IN /\ hfsServing
     /\ CASE p \in hfsStaged -> says(p, "staged")
          [] p \notin hfsStaged /\ real # NoSuchPath ->
               IF IsRegular(real) THEN open(real) ELSE says(NoSuchPath, "hidden")
          [] OTHER -> IF activeSessionRead(p) THEN open(EvalSymlinks(p))
                      ELSE says(NoSuchPath, readDeniedError(p))
     /\ hfsAsked /\ UNCHANGED <<hfsSession, hfsStaged>>

OpenResolved ==
  /\ ~hfsIdle
  /\ hfsOpen' = NoAnswer
  /\ hfsAnswer' = [hfsOpen EXCEPT !.outcome = IF IsRegular(hfsOpen.real) THEN "ok" ELSE "hidden"]
  /\ hfsFollowUp /\ UNCHANGED <<hfsSession, hfsStaged>>

ListDir(p) ==
  /\ hfsServing
  /\ hfsAnswer' \in listAnswers(p)
  /\ hfsAsked /\ UNCHANGED <<hfsSession, hfsStaged, hfsOpen>>

StageWrite(p) ==
  LET outcome == authorizeWritePath("write", p)
  IN /\ hfsServing
     /\ hfsAnswer' = answered("write", p, p, outcome, NoNames)
     /\ hfsStaged' = IF outcome = "allow" THEN hfsStaged \cup {p} ELSE hfsStaged
     /\ hfsAsked /\ UNCHANGED <<hfsSession, hfsOpen>>

(* The operator approves the read the guest was told needs approval.        *)
ApproveRead ==
  /\ hfsServing
  /\ hfsAnswer.outcome = "approval-required"
  /\ readGrantCandidate(hfsAnswer.path) = "candidate"
  /\ hfsSession' = hfsSession \cup {<<hfsAnswer.path, EvalSymlinks(hfsAnswer.path)>>}
  /\ hfsAnswer' = NoAnswer
  /\ hfsFollowUp /\ UNCHANGED <<hfsStaged, hfsOpen>>

OpenHostApp(p) ==
  LET real == resolveHostAppResource(p)
  IN /\ hfsServing
     /\ hfsAnswer' = answered("app", p, real, IF real = NoSuchPath THEN "refused" ELSE "ok", NoNames)
     /\ hfsAsked /\ UNCHANGED <<hfsSession, hfsStaged, hfsOpen>>

HfsNext ==
  \/ \E kind \in HfsGrantKinds, p \in HfsRulePaths, lapses \in HfsLapses : AddGrant(kind, p, lapses)
  \/ \E kind \in HfsDenyKinds, p \in HfsRulePaths, ops \in HfsDenyOps : AddDeny(kind, p, ops)
  \/ LaunchService
  \/ \E t \in HfsTargets : Relink(t)
  \/ Lapse
  \/ \E p \in HfsRequests : Stat(p) \/ Read(p) \/ ListDir(p) \/ StageWrite(p) \/ OpenHostApp(p)
  \/ OpenResolved
  \/ ApproveRead

HfsSpec == HfsInit /\ [][HfsNext]_hfsVars

-----------------------------------------------------------------------------

deniedBy(op, p) == Decide(op, p).effect = "deny"
allowedBy(op, p) == Decide(op, p).effect = "allow"

(* Whatever the rules, and wherever the link pointed when the policy was    *)
(* built and when the request came: a read that is answered with content,   *)
(* and a stat answered in full, was denied by no rule on the path asked for *)
(* nor on the file it resolved to, and that file was granted or approved    *)
(* for the session; a listing names nothing that the rules hide from        *)
(* discovery, save what the guest staged itself, and nothing of the store   *)
(* save the way to a path that was granted before it led there; and nothing *)
(* below a directory handed to a host application is denied (service.go     *)
(* Stat, Read, List, ResolveHostAppResource).                               *)
NothingHiddenIsShown ==
  LET a == hfsAnswer
      both == {a.path, a.real}
  IN /\ a.outcome = "ok" /\ a.verb \in {"read", "stat"} =>
          /\ \A p \in both : ~deniedBy(a.verb, p)
          /\ allowedBy(a.verb, a.real) \/ <<a.path, a.real>> \in hfsSession
     /\ a.outcome = "ok" /\ a.verb = "list" =>
          \A n \in a.names : LET c == Append(a.real, n) IN
             \/ c \in hfsStaged
             \/ reserved(c) /\ \E g \in ToSet(hfsPolicy.grants) : pathInRoot(g.path, c)
             \/ ~deniedBy("discover", c)
     /\ a.outcome = "ok" /\ a.verb = "app" =>
          \A p \in HfsDirs \cup HfsFiles \cup {HfsLinkPath} : pathInRoot(p, a.real) =>
             \A op \in {"read", IF p \in HfsDirs THEN "list" ELSE "read"} : ~deniedBy(op, p)
=============================================================================
