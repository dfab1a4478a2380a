---------------------------- MODULE Permissions ----------------------------
(***************************************************************************)
(* What an account may do, decided twice: by the server for every request  *)
(* (rbac.go), from the role record of the moment, and by the page for what *)
(* it shows (rbac.ts), from the copy that /api/auth/me answered.  The two  *)
(* are written apart, in two languages, and must agree.  The routes, the   *)
(* side bar and the command search ask the page's rules.                   *)
(*                                                                         *)
(* A path, a pattern, a menu entry and a role name are sequences of        *)
(* tokens: "/", "*", "-", " " and ":" are tokens of their own, a word is   *)
(* one.  A built-in role is named by one word here, or by two with a       *)
(* separator; letter case and surrounding space are left out.              *)
(***************************************************************************)
EXTENDS Naturals, Sequences, FiniteSets, SequencesExt

CONSTANTS Grants,     \* the permissions a role record may have, at most one at a time
          Menus,      \* the menu entries it may have, at most one at a time
          RoleNames,  \* role names of the account
          TypeNames,  \* types of the role record
          Paths, Methods,
          Pages,      \* the console pages: records of a collection, a route and a kind
          MaxEdits    \* bound on the edits of one behaviour

Servers == <<"/", "app", "/", "servers">>
Sessions == <<"/", "app", "/", "sessions">>
Audit == <<"/", "app", "/", "audit">>
Overview == <<"/", "app">>
Access == <<"/", "access">>
Assets == <<"/", "app", "/", "assets">>

(* What the values of the constants satisfy: names, patterns and paths are *)
(* sequences of tokens, a path begins with a word, and each console page   *)
(* has a route of its own.                                                 *)
ConstantsOK ==
  /\ MaxEdits \in Nat /\ RoleNames \subseteq Seq(STRING) /\ <<"team">> \in TypeNames
  /\ \A g \in Grants : g.method \in Methods \cup {"", "*"} /\ g.pattern \in Seq(STRING) /\ g.pattern # <<>>
  /\ \A p \in Paths : p \in Seq(STRING) /\ Len(p) > 1 /\ p[1] = "/" /\ p[2] # "/"
  /\ \A p \in Pages : p.route \notin {Servers, Sessions, Audit, Overview, Access}
  /\ \A p, q \in Pages : p.route = q.route => p = q

VARIABLES
  record,    \* the role record named <<"ops">>
  role,      \* the role name of the account
  edits,
  auth,      \* the page's copy
  me,        \* the request for it: <<>>, <<"sent">> or <<"answer", a copy>>
  location   \* the route that is shown

vars == <<record, role, edits, auth, me, location>>

Record == [enabled : BOOLEAN, type : TypeNames, api : {{}} \cup {{g} : g \in Grants}, menus : {{}} \cup {{m} : m \in Menus}]

(***************************************************************************)
(* Role names                                                              *)
(***************************************************************************)

Separators == {"-", " "}
BuiltIn(name) ==
  CASE name \in {<<"super", "_", "admin">>, <<"super_admin">>, <<"root">>} -> "super_admin"
    [] name \in {<<"admin">>, <<"administrator">>} -> "admin"
    [] name \in {<<"auditor">>, <<"audit">>} -> "auditor"
    [] name \in {<<"user">>, <<"member">>} -> "user"
    [] OTHER -> "custom"

Underscored(name) == [i \in DOMAIN name |-> IF name[i] \in Separators THEN "_" ELSE name[i]]

(* roles.Normalize: every separator becomes an underscore. *)
Normalize(name) == BuiltIn(Underscored(name))

(* normalizeRole of the page: a run of separators becomes one, and an      *)
(* empty name is a user.                                                   *)
Kept(name) == {i \in DOMAIN name : ~(i > 1 /\ name[i] \in Separators /\ name[i - 1] \in Separators)}
Before(i, name) == Cardinality({j \in Kept(name) : j < i})
Collapsed(name) ==
  [k \in 1 .. Cardinality(Kept(name)) |-> name[CHOOSE i \in Kept(name) : Before(i, name) = k - 1]]
NormalizeRole(name) == IF name = <<>> THEN "user" ELSE BuiltIn(Underscored(Collapsed(name)))

Admin(kind) == kind \in {"super_admin", "admin"}

(***************************************************************************)
(* Paths and patterns                                                      *)
(***************************************************************************)

TrimRight(s) == LET ends == {i \in DOMAIN s : s[i] # "/"}
                IN SubSeq(s, 1, IF ends = {} THEN 0 ELSE CHOOSE i \in ends : \A j \in ends : j <= i)
EndsWith(s, tail) == IsSuffix(tail, s)
Cut(s, n) == SubSeq(s, 1, Len(s) - n)

(* trimRightSlash of the page never gives an empty path. *)
TrimRightSlash(s) == IF TrimRight(s) = <<>> THEN <<"/">> ELSE TrimRight(s)

(* pathMatches of the server, on a trimmed pattern and path: the cases of  *)
(* "/*" and "*" come to the same.                                          *)
PathMatches(pattern, path) == pattern = path \/ (EndsWith(pattern, <<"*">>) /\ IsPrefix(Cut(pattern, 1), path))

(* Mutant: the page takes the collection itself for one of its records. *)
PagePathMatchesBare(pattern, path) ==
  \/ pattern = path
  \/ EndsWith(pattern, <<"/", "*">>) /\ IsPrefix(Cut(pattern, 2), path)
  \/ EndsWith(pattern, <<"*">>) /\ IsPrefix(Cut(pattern, 1), path)

(* Mutant: the page knows the star only after a slash. *)
PagePathMatchesSlash(pattern, path) == pattern = path \/ (EndsWith(pattern, <<"/", "*">>) /\ IsPrefix(Cut(pattern, 1), path))

(* pathMatches of the page. *)
PagePathMatches(pattern, path) ==
  \/ pattern = path
  \/ IF EndsWith(pattern, <<"/", "*">>) THEN IsPrefix(Cut(pattern, 2) \o <<"/">>, path)
     ELSE EndsWith(pattern, <<"*">>) /\ IsPrefix(Cut(pattern, 1), path)

(* collectionDetailPathMatches: the pattern names a collection and the     *)
(* path one of its records.                                                *)
DetailMatches(pattern, path) ==
  /\ pattern # <<>> /\ pattern # path /\ \A i \in DOMAIN pattern : pattern[i] # "*"
  /\ IsPrefix(pattern \o <<"/">>, path)
  /\ LET tail == SubSeq(path, Len(pattern) + 2, Len(path)) IN tail # <<>> /\ \A i \in DOMAIN tail : tail[i] # "/"

(***************************************************************************)
(* Permissions                                                             *)
(***************************************************************************)

AuditPrefix == <<"/", "api", "/", "admin", "/", "audit", "/">>
AuditorPaths == {<<"/", "api", "/", "system", "/", "monitoring">>, <<"/", "api", "/", "bootstrap">>, <<"/", "api", "/", "audit">>}

Special(g) == g.method = "" /\ g.pattern \in {<<"admin", ":", "*">>, <<"*">>}
AuditRead(g, method, path) ==
  g.method = "" /\ g.pattern = <<"audit", ":", "read">> /\ method = "GET" /\ IsPrefix(AuditPrefix, path)

(* permissionMatchesAPI of the server: "* /api/*" stands for everything. *)
PermissionMatches(g, method, path) ==
  \/ Special(g) \/ (g.method = "*" /\ g.pattern = <<"/", "api", "/", "*">>)
  \/ AuditRead(g, method, path)
  \/ /\ g.method \in {"", "*", method}
     /\ LET pattern == TrimRight(g.pattern)
        IN PathMatches(pattern, path) \/ (method = "GET" /\ DetailMatches(pattern, path))

(* and of the page. *)
PagePermissionMatches(g, method, path) ==
  \/ Special(g) \/ (g.method = "*" /\ g.pattern = <<"/", "api", "/", "*">>)
  \/ AuditRead(g, method, path)
  \/ /\ g.method \in {"", "*", method}
     /\ LET pattern == TrimRightSlash(g.pattern)
        IN PagePathMatches(pattern, path) \/ (method = "GET" /\ DetailMatches(pattern, path))

(* auditorMayAccess. *)
AuditorMay(method, path) == method = "GET" /\ (path \in AuditorPaths \/ IsPrefix(AuditPrefix, path))

(* auditorCanUseAPI of the page. *)
PageAuditorMay(method, path) == method = "GET" /\ (path \in AuditorPaths \/ IsPrefix(AuditPrefix, path))

(***************************************************************************)
(* The server's decision                                                   *)
(***************************************************************************)

(* roleDecision: a built-in name first, else the record that is enabled    *)
(* and has the name or the type, whose type or name may be built in too.   *)
Nothing == [kind |-> "user", api |-> {}, menus |-> {}]
RoleDecision ==
  IF Normalize(role) # "custom" THEN [kind |-> Normalize(role), api |-> {}, menus |-> {}]
  ELSE IF role = <<>> \/ ~record.enabled \/ role \notin {<<"ops">>, record.type} THEN Nothing
  ELSE [kind |-> Normalize(record.type), api |-> record.api, menus |-> record.menus]

(* isAlwaysAllowedAuthenticatedAPI. *)
AlwaysAllowed(path) ==
  \/ path \in {<<"/", "api", "/", "bootstrap">>, <<"/", "api", "/", "auth", "/", "me">>, <<"/", "api", "/", "auth", "/", "logout">>}
  \/ IsPrefix(<<"/", "api", "/", "access", "/">>, path)
  \/ /\ IsPrefix(<<"/", "api", "/", "connections", "/">>, path)
     /\ \E i \in DOMAIN path : path[i] \in {"ws", "tunnel", "close", "recording.zip", "drive", "sftp"}

(* authorizeAPI. *)
Allowed(method, path) ==
  LET p == TrimRight(path) IN
    \/ AlwaysAllowed(p) \/ Admin(RoleDecision.kind)
    \/ RoleDecision.kind = "auditor" /\ AuditorMay(method, p)
    \/ \E g \in RoleDecision.api : PermissionMatches(g, method, p)

(* authUserPayload: a built-in name is made canonical, another one is sent *)
(* as it is.                                                               *)
Payload == [role |-> IF Normalize(role) = "custom" THEN role ELSE <<Normalize(role)>>,
            api |-> RoleDecision.api, menus |-> RoleDecision.menus]

(***************************************************************************)
(* The page's decisions, from a copy                                       *)
(***************************************************************************)

Kind(a) == NormalizeRole(a.role)

(* canUseAPI. *)
CanUseAPI(a, method, path) ==
  LET p == TrimRightSlash(path) IN
    \/ Admin(Kind(a))
    \/ Kind(a) = "auditor" /\ PageAuditorMay(method, p)
    \/ Kind(a) = "custom" /\ \E g \in a.api : PagePermissionMatches(g, method, p)

(* menuPermissionAllows. *)
MenuCandidates(page) ==
  {<<"*">>, <<"admin", ":", "*">>, page.collection, page.route} \cup
  {word \o <<":", end>> : word \in {page.collection} \cup (IF page.kind = <<>> THEN {} ELSE {page.kind}), end \in {"read", "*"}}
MenuAllows(a, page) ==
  \E m \in a.menus :
    \/ m \in MenuCandidates(page)
    \/ EndsWith(m, <<"*">>) /\ (IsPrefix(Cut(m, 1), page.collection) \/ IsPrefix(Cut(m, 1), page.route))

AuditorCollections == {<<"access_stats">>, <<"online_sessions">>, <<"offline_sessions">>, <<"system_monitoring">>}

(* canViewPlatformPage. *)
CanView(a, page) ==
  \/ Admin(Kind(a))
  \/ Kind(a) = "auditor" /\ (EndsWith(page.collection, <<"_logs">>) \/ page.collection \in AuditorCollections)
  \/ Kind(a) = "custom" /\ MenuAllows(a, page)

Routes == {p.route : p \in Pages}

(* RoleGate and AuditGate of the routes. *)
Gate(a, to) ==
  /\ to \in {Servers, Sessions} => Admin(Kind(a))
  /\ to = Audit => Admin(Kind(a)) \/ Kind(a) = "auditor"
  /\ \A page \in Pages : page.route = to => CanView(a, page)

(* Mutant: the side bar shows the workspace to everyone. *)
SidebarLinksAll(a) == {Overview, Access, Servers} \cup {p.route : p \in {q \in Pages : CanView(a, q)}}

(* The links of the side bar. *)
SidebarLinks(a) ==
  {Overview, Access} \cup (IF Admin(Kind(a)) THEN {Servers} ELSE {}) \cup {p.route : p \in {q \in Pages : CanView(a, q)}}

(* The links of the mobile menu. *)
MobileLinks(a) ==
  {Overview, Access} \cup (IF Admin(Kind(a)) THEN {Servers} ELSE {}) \cup {p.route : p \in {q \in Pages : CanView(a, q)}}

(* The links of the header. *)
HeaderLinks(a) == {Access} \cup {p.route : p \in {q \in Pages : q.route = Assets /\ CanView(a, q)}}

(* The commands of the search. *)
SearchLinks(a) ==
  {Overview, Access} \cup {p.route : p \in {q \in Pages : CanView(a, q)}} \cup
  (IF Admin(Kind(a)) THEN {Servers, Sessions} ELSE {}) \cup (IF Admin(Kind(a)) \/ Kind(a) = "auditor" THEN {Audit} ELSE {})

Links(a) == SidebarLinks(a) \cup MobileLinks(a) \cup HeaderLinks(a) \cup SearchLinks(a)

(***************************************************************************)
(* Actions                                                                 *)
(***************************************************************************)

Init ==
  /\ record = [enabled |-> TRUE, type |-> <<"team">>, api |-> {}, menus |-> {}]
  /\ role \in RoleNames /\ edits = 0 /\ auth = Payload /\ me = <<>> /\ location = Overview

(* An administrator edits the role record, or gives the account a role. *)
EditRecord(r) ==
  /\ edits < MaxEdits /\ edits' = edits + 1 /\ r # record /\ record' = r
  /\ UNCHANGED <<role, auth, me, location>>

AssignRole(name) ==
  /\ edits < MaxEdits /\ edits' = edits + 1 /\ name # role /\ role' = name
  /\ UNCHANGED <<record, auth, me, location>>

(* The page asks for the account again when the connection is back. *)
AskMe == me = <<>> /\ me' = <<"sent">> /\ UNCHANGED <<record, role, edits, auth, location>>

ServeMe == me = <<"sent">> /\ me' = <<"answer", Payload>> /\ UNCHANGED <<record, role, edits, auth, location>>

(* A route that the copy does not let through shows the access portal. *)
Shown(a, to) == IF Gate(a, to) THEN to ELSE Access

TakeMe ==
  /\ Len(me) = 2 /\ me' = <<>> /\ auth' = me[2] /\ location' = Shown(me[2], location)
  /\ UNCHANGED <<record, role, edits>>

(* A link, a command of the search, or a route typed into                  *)
(* the address bar.                                                        *)
Follow(to) == location' = Shown(auth, to) /\ UNCHANGED <<record, role, edits, auth, me>>

Next ==
  \/ \E r \in Record : EditRecord(r)
  \/ \E name \in RoleNames : AssignRole(name)
  \/ AskMe \/ ServeMe \/ TakeMe
  \/ \E to \in Links(auth) \cup Routes \cup {Servers, Sessions, Audit} : Follow(to)

Spec == Init /\ [][Next]_vars

(***************************************************************************)
(* Properties                                                              *)
(***************************************************************************)

(* What /api/auth/me may answer. *)
Copies ==
  [role : RoleNames \cup {<<k>> : k \in {"super_admin", "admin", "auditor", "user"}},
   api : {{}} \cup {{g} : g \in Grants}, menus : {{}} \cup {{m} : m \in Menus}]

TypeOK ==
  /\ record \in Record /\ role \in RoleNames /\ edits \in 0 .. MaxEdits
  /\ auth \in Copies
  /\ location \in Routes \cup {Servers, Sessions, Audit, Overview, Access}

(* The copy is what the server would answer now. *)
Current == auth = Payload

(* No two separators follow each other: of such a name the page and the    *)
(* server make different words.                                            *)
Plain(name) == \A i \in 1 .. Len(name) - 1 : ~(name[i] \in Separators /\ name[i + 1] \in Separators)

(* While its copy is current the page offers only requests that the server *)
(* lets through (canUseAPI and authorizeAPI).                              *)
OfferedIsAllowed ==
  Current /\ Plain(role) => \A m \in Methods, p \in Paths : CanUseAPI(auth, m, p) => Allowed(m, p)

(* And it offers all of them, but for the requests every account may make  *)
(* and for a role record that stands for a built-in role by its type.      *)
AllowedIsOffered ==
  Current /\ (Normalize(role) = "custom" => RoleDecision.kind \in {"custom", "user"}) =>
    \A m \in Methods, p \in Paths : Allowed(m, p) => (CanUseAPI(auth, m, p) \/ AlwaysAllowed(TrimRight(p)))

(* Every link leads to its page and never back to the access portal, and   *)
(* the page that is shown is one the copy lets through, also after the     *)
(* copy was renewed.                                                       *)
LinksLead == (\A to \in Links(auth) : Gate(auth, to)) /\ Gate(auth, location)

=============================================================================
