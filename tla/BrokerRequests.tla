--------------------------- MODULE BrokerRequests ---------------------------
(***************************************************************************)
(* What the credential broker does with one request from a VM: who sent    *)
(* it, is it allowed, and what goes upstream with the host's credentials.  *)
(* SandboxAccess has the handle and the suspension over time; here they    *)
(* are right or wrong.                                                     *)
(*                                                                         *)
(* A path is a sequence of segments and a segment a sequence of symbols: a *)
(* symbol is a character that matters, or a word that stands for several   *)
(* that do not.  How the services read a request is external: it is what   *)
(* HTTP, GraphQL and git let them read, which is more than one thing where *)
(* implementations differ.                                                 *)
(***************************************************************************)
EXTENDS Integers, Sequences, FiniteSets

CONSTANT MaxGlob   \* bound on the length of a segment's pattern

ASSUME RequestsAssumption == MaxGlob \in Nat

VARIABLES
  incoming,   \* the request, and the policy its sender is held to
  answer      \* what became of it, and was it sent upstream

requestVars == <<incoming, answer>>

Pending == [action |-> "pending", sent |-> FALSE]
Idle == [surface |-> "none"]

\* Words, as the source writes them, to segments.
Seg(word) == IF word = "" THEN <<>> ELSE IF word = "**" THEN <<"*", "*">> ELSE <<word>>
Path(words) == [i \in DOMAIN words |-> Seg(words[i])]
Upto(s, n) == SubSeq(s, 1, n)

----------------------------------------------------------------------------
(* Globs *)

Wild(s) == \E i \in DOMAIN s : s[i] \in {"*", "?"}

\* matchSingleSegment's loop: pi and si count what has been matched of the pattern and
\* of the segment, star is the place of the last star (none: -1) and starSi where it
\* has eaten to.
LoopStart == [pi |-> 0, si |-> 0, star |-> -1, starSi |-> 0]

Stars(pat, l) == l.pi < Len(pat) /\ pat[l.pi + 1] = "*"
Meets(pat, seg, l) == l.pi < Len(pat) /\ pat[l.pi + 1] \in {"?", seg[l.si + 1]}

\* One round of it. A loop that is over stays as it is: either the segment is used up
\* or, which returns false, it is not, nothing matches and no star can eat more.
Round(pat, seg, l) ==
  CASE l.si = Len(seg)    -> l
    [] l.si < Len(seg) /\ Stars(pat, l) ->
         [pi |-> l.pi + 1, si |-> l.si, star |-> l.pi, starSi |-> l.si]
    [] l.si < Len(seg) /\ ~Stars(pat, l) /\ Meets(pat, seg, l) ->
         [pi |-> l.pi + 1, si |-> l.si + 1, star |-> l.star, starSi |-> l.starSi]
    [] OTHER ->
         IF l.star < 0 THEN l
         ELSE [pi |-> l.star + 1, si |-> l.starSi + 1, star |-> l.star, starSi |-> l.starSi + 1]

\* The loop after so many rounds, and as many as it can take.
Loop(pat, seg) ==
  LET after[n \in Nat] == IF n = 0 THEN LoopStart ELSE Round(pat, seg, after[n - 1])
  IN after

Rounds(pat, seg) == (Len(pat) + 1) * (Len(seg) + 1)

Backtrack(pat, seg) ==
  LET end == Loop(pat, seg)[Rounds(pat, seg)]
  IN end.si = Len(seg) /\ \A i \in end.pi + 1 .. Len(pat) : pat[i] = "*"

matchSingleSegment(pat, seg) ==
  \/ pat = <<"*">>
  \/ IF Wild(pat) THEN Backtrack(pat, seg) ELSE pat = seg

\* matchGlobSegments for the last k segments of the pattern, in a call that was given
\* the path from place b on and has come to place s: what follows a ** is tried at
\* every place of the call's path, the ones before s included.
LastMatch(pat, path) ==
  LET L == Len(path)
      last[k \in 0 .. Len(pat)] ==
        IF k = 0 THEN [b \in 0 .. L |-> [s \in 0 .. L |-> s = L]]
        ELSE LET g == pat[Len(pat) - k + 1]
             IN [b \in 0 .. L |-> [s \in 0 .. L |->
                   IF g = <<"*", "*">> THEN \E j \in b .. L : last[k - 1][j][j]
                   ELSE s < L /\ matchSingleSegment(g, path[s + 1]) /\ last[k - 1][b][s + 1]]]
  IN last

matchGlob(pat, path) == LastMatch(pat, path)[Len(pat)][0][0]

----------------------------------------------------------------------------
(* Policies *)

Rule(kind, method, words) == [kind |-> kind, method |-> method, glob |-> Path(words)]
ApiRules(method, globs) == {Rule("api", method, g) : g \in globs}

DeniedDeletes ==
  {<<"repos", "*", "*">>, <<"orgs", "*">>,
   <<"repos", "*", "*", "git", "refs", "heads", "main">>,
   <<"repos", "*", "*", "git", "refs", "heads", "master">>,
   <<"repos", "*", "*", "branches", "*", "protection">>,
   <<"repos", "*", "*", "actions", "secrets", "*">>, <<"orgs", "*", "actions", "secrets", "*">>,
   <<"repos", "*", "*", "environments", "*", "secrets", "*">>,
   <<"repos", "*", "*", "dependabot", "secrets", "*">>,
   <<"repos", "*", "*", "codespaces", "secrets", "*">>,
   <<"repos", "*", "*", "hooks", "*">>, <<"orgs", "*", "hooks", "*">>,
   <<"repos", "*", "*", "keys", "*">>, <<"user", "keys", "*">>, <<"user", "gpg_keys", "*">>,
   <<"orgs", "*", "memberships", "*">>, <<"repos", "*", "*", "releases", "*">>,
   <<"repos", "*", "*", "actions", "runs", "*">>}

DeniedPosts ==
  {<<"repos", "*", "*", "transfer">>, <<"repos", "*", "*", "hooks">>, <<"orgs", "*", "hooks">>,
   <<"repos", "*", "*", "keys">>, <<"user", "keys">>, <<"user", "gpg_keys">>}

DeniedPuts ==
  {<<"repos", "*", "*", "branches", "*", "protection">>, <<"orgs", "*", "memberships", "*">>,
   <<"repos", "*", "*", "actions", "permissions">>}

DeniedPatches ==
  {<<"repos", "*", "*", "hooks", "*">>, <<"orgs", "*", "hooks", "*">>, <<"user">>, <<"orgs", "*">>}

DefaultDenyRules ==
  ApiRules("DELETE", DeniedDeletes) \cup ApiRules("POST", DeniedPosts)
  \cup ApiRules("PUT", DeniedPuts) \cup ApiRules("PATCH", DeniedPatches)
  \cup {Rule("git-delete-ref", "", <<"refs", "heads", b>>) : b \in {"main", "master"}}

Endpoint(method, words) == [method |-> method, glob |-> Path(words)]

DefaultFlyEndpoints ==
  {Endpoint("GET", <<"v1", "apps", "*">> \o rest) :
     rest \in {<<>>, <<"machines">>, <<"machines", "*">>, <<"machines", "*", "events">>,
               <<"logs">>, <<"releases">>}}

DefaultDopplerEndpoints ==
  {Endpoint("POST", <<"v3", "configs", "config", "secrets">>),
   Endpoint("GET", <<"v3", "configs">>), Endpoint("GET", <<"v3", "configs", "config">>)}

\* PolicyForSpec; the operator chose the deny rules, and may have added some.
PolicyForSpec(deny, fly, apps, doppler) ==
  [owners |-> {"o"}, deny |-> deny, fly |-> fly, doppler |-> doppler,
   apps |-> apps, projects |-> {"proj"}]

----------------------------------------------------------------------------
(* Is a GitHub request allowed? *)

apiTopLevel ==
  {"", "repos", "user", "users", "orgs", "search", "rate_limit", "meta", "markdown", "emojis",
   "licenses", "gitignore", "codes_of_conduct", "octocat", "zen", "notifications", "gists",
   "events", "feeds", "versions"}

Changing == {"?", "#", "%2e%2e", "\\", " "}

\* Mutant: an empty segment is let through.
checkAPIPathDots(path) ==
  \A i \in DOMAIN path :
    /\ path[i] \notin {Seg("."), Seg("..")}
    /\ \A k \in DOMAIN path[i] : path[i][k] \notin Changing

checkAPIPath(path) ==
  \/ path = <<Seg("")>>
  \/ \A i \in DOMAIN path :
       /\ path[i] \notin {Seg(""), Seg("."), Seg("..")}
       /\ \A k \in DOMAIN path[i] : path[i][k] \notin Changing

\* The segment of a path that names an owner, as a set of at most one.
extractAPIOwner(path) ==
  IF Len(path) >= 2 /\ path[1] \in {Seg("repos"), Seg("users"), Seg("orgs")}
  THEN {path[2]} ELSE {}

\* A rule without a pattern is about every path.
Covers(r, path) == r.glob = <<>> \/ matchGlob(r.glob, path)

AllowedOwner(p, owner) == owner \in {Seg(o) : o \in p.owners}

checkAPI(p, method, path) ==
  /\ checkAPIPath(path)
  /\ path[1] \in {Seg(top) : top \in apiTopLevel}
  /\ \A owner \in extractAPIOwner(path) : AllowedOwner(p, owner)
  /\ ~\E r \in p.deny : r.kind = "api" /\ r.method \in {"", method} /\ Covers(r, path)

Allowlisted == {"createIssue", "addComment"}   \* of graphQLMutationAllowlist

\* Every top-level field of a mutation; a fragment there could hide any.
checkMutation(op) == op.fields \subseteq Allowlisted

\* graphQLQuery: one JSON object, no key twice in whatever case, and a query in it.
graphQLQuery(b) ==
  LET fold == [i \in DOMAIN b.keys |-> IF b.keys[i].key = "Query" THEN "query" ELSE b.keys[i].key]
  IN {b.keys[i].doc : i \in {i \in DOMAIN b.keys :
        /\ b.shape = "object"
        /\ b.keys[i].key = "query"
        /\ \A j, k \in DOMAIN b.keys : fold[j] = fold[k] => j = k}}

checkGraphQL(b) ==
  \E doc \in graphQLQuery(b) :
    /\ doc # {}
    /\ \A op \in doc : op.type = "query" \/ (op.type = "mutation" /\ checkMutation(op))

\* A body the broker would read otherwise than GitHub is refused before it is parsed.
checkGraphQLRequest(r) == r.method = "POST" /\ ~r.body.disguised /\ checkGraphQL(r.body)

\* parseReceivePackCommands: up to the flush packet or what is no pkt-line. A compressed
\* body, which nothing refuses here, starts with what is none.
parseReceivePackCommands(b) ==
  {b.lines[i] : i \in {i \in DOMAIN b.lines :
     /\ ~b.encoded
     /\ b.lines[i].is = "command"
     /\ \A j \in 1 .. i : b.lines[j].is \notin {"flush", "broken"}}}

checkGitDelete(p, ref) ==
  ~\E r \in p.deny : r.kind = "git-delete-ref" /\ Covers(r, ref)
checkGitPush(p, repo) ==
  ~\E r \in p.deny : r.kind = "git-push" /\ Covers(r, repo)

\* The repository is given its .git if it has none; what follows it, in one segment or
\* several, is the endpoint, and none of it is looked at but for this one comparison.
RepoPath(r) == <<r.path[1], IF r.suffix THEN r.path[2] ELSE r.path[2] \o <<".git">> >>
GitEndpoint(r) == SubSeq(r.path, 3, Len(r.path))
ReceivePack == <<Seg("git-receive-pack")>>

IsPush(r) == r.method = "POST" /\ GitEndpoint(r) = ReceivePack

checkGit(p, r) ==
  /\ AllowedOwner(p, r.path[1])
  /\ IsPush(r) =>
       /\ checkGitPush(p, RepoPath(r))
       /\ \A c \in parseReceivePackCommands(r.body) : c.deletes => checkGitDelete(p, c.ref)

\* The path a request has when it is sent on: decoded, and as it came but for the .git.
UpstreamPath(r) == IF r.surface = "GIT" THEN RepoPath(r) \o GitEndpoint(r) ELSE r.path

----------------------------------------------------------------------------
(* Is a Fly or Doppler request allowed? *)

matchAllowedEndpoint(rules, method, path) ==
  \E e \in rules : e.method = method /\ matchGlob(e.glob, path)

\* The segment of a path that names an app, as a set of at most one: an empty one names none.
extractFlyApp(path) ==
  IF Len(path) >= 3 /\ path[1] = Seg("v1") /\ path[2] = Seg("apps")
  THEN {path[3]} \ {Seg("")} ELSE {}

allowsApp(p, app) == "*" \in p.apps \/ app \in {Seg(a) : a \in p.apps}

checkFly(p, r) ==
  /\ p.fly
  /\ matchAllowedEndpoint(DefaultFlyEndpoints, r.method, r.path)
  /\ \A app \in extractFlyApp(r.path) : allowsApp(p, app)

requiresDopplerProject(path) ==
  Len(path) >= 2 /\ path[1] = Seg("v3") /\ path[2] # <<>> /\ path[2][1] = "configs"

\* Of the projects in the query the first counts, and the body is not looked at.
QueryProject(r) == IF r.query = <<>> THEN "" ELSE r.query[1]

checkDoppler(p, r) ==
  /\ p.doppler
  /\ matchAllowedEndpoint(DefaultDopplerEndpoints, r.method, r.path)
  /\ IF QueryProject(r) # "" THEN QueryProject(r) \in p.projects
     ELSE ~requiresDopplerProject(r.path)

----------------------------------------------------------------------------
(* The handlers *)

Reply(action, sent) == answer' = [action |-> action, sent |-> sent] /\ UNCHANGED incoming

\* A request that may go is sent with the host's credential, unless there is none; the
\* service may then be unreachable. The VM's own Authorization never goes.
Forward(hasCredential) ==
  \/ Reply("ERROR", FALSE)
  \/ hasCredential /\ (Reply("ALLOW", TRUE) \/ Reply("ERROR", TRUE))

Handle(surface, credential, allowed, hasCredential) ==
  /\ incoming.surface = surface /\ answer.action = "pending"
  /\ \/ incoming.handle # credential /\ Reply("AUTH", FALSE)
     \/ incoming.handle = credential /\ ~allowed /\ Reply("DENY", FALSE)
     \/ incoming.handle = credential /\ allowed /\ Forward(hasCredential)

\* verifyBasic asks for a profile and its handle as user and password; verifyBearer
\* for both in one token.
handleAPI == Handle("API", "basic",
  IF incoming.path = <<Seg("graphql")>> THEN checkGraphQLRequest(incoming)
  ELSE checkAPI(incoming.policy, incoming.method, incoming.path), TRUE)

handleGit ==
  IF incoming.surface = "GIT" /\ Len(incoming.path) < 3
  THEN answer.action = "pending" /\ Reply("ERROR", FALSE)
  ELSE Handle("GIT", "basic", checkGit(incoming.policy, incoming), TRUE)

handleFly == Handle("FLY", "bearer", checkFly(incoming.policy, incoming), incoming.token)

handleDoppler ==
  Handle("DOPPLER", "bearer", checkDoppler(incoming.policy, incoming), incoming.token)

----------------------------------------------------------------------------
(* Requests: the rules' own paths and their surroundings. Case is folded before any
   comparison of an API path, and paths here are written in the folded case. *)

Instances(glob) ==
  {[i \in DOMAIN glob |-> IF glob[i] # <<"*">> THEN glob[i]
                          ELSE IF i = 2 THEN Seg(owner) ELSE Seg("x")] : owner \in {"o", "z"}}

Surroundings(p) ==
  {p, Append(p, Seg("x")), Upto(p, Len(p) - 1), Append(p, Seg("")), Append(p, Seg(".")),
   p \o Path(<<"x", "..">>), p \o Path(<<"x", "%2e%2e">>),
   [p EXCEPT ![Len(p)] = @ \o <<"?">>], <<Seg("x"), Seg("..")>> \o p}

AroundTheRules ==
  UNION {Surroundings(p) : p \in UNION {Instances(r.glob) :
           r \in {r \in DefaultDenyRules : r.kind = "api"}}}

ApiPaths ==
  (AroundTheRules \ {<<>>})
  \cup {Path(<<"">>), Path(<<"repositories", "1">>), Path(<<"users", "z">>), Path(<<"rate_limit">>),
        Path(<<"repos", "o", "x", "git", "refs", "heads", "b">>)}

ApiDenyChoices ==
  {DefaultDenyRules, {},
   {Rule("api", "", <<"repos", "*", "*", "git", "refs", "**">>), Rule("api", "PATCH", <<>>)}}

GitDenyChoices ==
  {DefaultDenyRules, {Rule("git-push", "", <<"o", "*">>)}, {Rule("git-delete-ref", "", <<>>)}}

Credentials == {"basic", "bearer", "none"}

ApiRequest(handle, deny, method, path) ==
  [surface |-> "API", handle |-> handle, policy |-> PolicyForSpec(deny, FALSE, {}, FALSE),
   method |-> method, path |-> path]

ApiRequests ==
  {ApiRequest("basic", d, m, path) :
     d \in ApiDenyChoices, m \in {"GET", "POST", "PUT", "PATCH", "DELETE"}, path \in ApiPaths}
  \cup {ApiRequest(h, {}, "GET", Path(<<"user">>)) : h \in Credentials}

Operations ==
  {[type |-> t, fields |-> {}] : t \in {"query", "subscription"}}
    \cup {[type |-> "mutation", fields |-> f] :
            f \in SUBSET {"createIssue", "deleteRef", "...fragment"} \ {{}}}
Documents == {doc \in SUBSET Operations : Cardinality(doc) <= 2}
BodyKeys == [key : {"query", "Query", "variables"}, doc : Documents]

Body(shape, disguised, keys) ==
  [is |-> "graphql", shape |-> shape, disguised |-> disguised, keys |-> keys]

OneOperation == {doc \in Documents : Cardinality(doc) = 1}
TwoKeys ==
  {<<k, l>> : k \in [key : {"query", "variables"}, doc : OneOperation],
              l \in [key : {"query", "Query"}, doc : OneOperation]}

Bodies ==
  {Body(s, dis, keys) : s \in {"object", "batch", "broken", "trailing"}, dis \in BOOLEAN,
                        keys \in {<<k>> : k \in BodyKeys} \cup TwoKeys}

GraphQLRequest(method, body) ==
  [surface |-> "API", handle |-> "basic", policy |-> PolicyForSpec({}, FALSE, {}, FALSE),
   method |-> method, path |-> Path(<<"graphql">>), body |-> body]

GraphQLRequests == {GraphQLRequest(m, b) : m \in {"GET", "POST"}, b \in Bodies}

Strings(symbols, n) == UNION {[1 .. k -> symbols] : k \in 1 .. n}

Command(deletes, ref) == [is |-> "command", deletes |-> deletes, ref |-> ref]
PackLines == {[is |-> x] : x \in {"flush", "short", "broken"}}
               \cup {Command(d, Path(<<"refs", "heads", b>>)) : d \in BOOLEAN, b \in {"main", "b"}}

GitRequest(deny, method, words, suffix, encoded, lines) ==
  [surface |-> "GIT", handle |-> "basic", policy |-> PolicyForSpec(deny, FALSE, {}, FALSE),
   method |-> method, path |-> Path(words), suffix |-> suffix,
   body |-> [is |-> "push", encoded |-> encoded, lines |-> lines]]

\* A rule that protects the refs of one segment that the pattern matches.
RefRule(pat) == [kind |-> "git-delete-ref", method |-> "", glob |-> <<pat>>]

\* The ones git serves, and others it reads as one of these or as another owner's.
GitEndpoints ==
  {<<>>, <<"info">>, <<"git-receive-pack">>, <<"git-upload-pack">>,
   <<"git-receive-pack", "">>, <<"x", "..", "git-receive-pack">>,
   <<"..", "..", "z", "x", "git-receive-pack">>}

RepositoryRequests ==
  {GitRequest(d, m, <<owner, "x">> \o e, s, enc, lines) :
     d \in GitDenyChoices, m \in {"GET", "POST"}, owner \in {"o", "z"}, s \in BOOLEAN,
     e \in GitEndpoints, enc \in BOOLEAN, lines \in Strings(PackLines, 2)}

Deletion(pat, ref) ==
  GitRequest({RefRule(pat)}, "POST", <<"o", "x", "git-receive-pack">>, TRUE, FALSE,
             <<Command(TRUE, <<ref>>)>>)

GitRequests ==
  RepositoryRequests
  \cup {Deletion(pat, ref) :
          pat \in Strings({"a", "b", "*", "?"}, MaxGlob), ref \in Strings({"a", "b"}, MaxGlob)}

\* The wizard writes the wildcard when it is given no apps.
FlyApps == {{"app"}, {"*"}}

FlyPaths ==
  {<<"v1", "apps", "app">>, <<"v1", "apps", "app", "logs">>, <<"v1", "apps", "other", "logs">>,
   <<"v1", "apps", "app", "machines", "m", "exec">>, <<"v1", "apps">>, <<"v1", "orgs">>,
   <<"v1", "apps", "", "logs">>, <<"v1", "apps", "..", "logs">>,
   <<"v1", "apps", "app", "machines", "..">>}

FlyRequest(handle, on, apps, method, token, words) ==
  [surface |-> "FLY", handle |-> handle, policy |-> PolicyForSpec({}, on, apps, FALSE),
   method |-> method, path |-> Path(words), token |-> token]

FlyRequests ==
  {FlyRequest(h, on, apps, m, tok, w) :
     h \in Credentials, on \in BOOLEAN, apps \in FlyApps, m \in {"GET", "POST"},
     tok \in BOOLEAN, w \in FlyPaths}

DopplerRequest(handle, on, method, token, query, named, words) ==
  [surface |-> "DOPPLER", handle |-> handle, policy |-> PolicyForSpec({}, FALSE, {}, on),
   method |-> method, path |-> Path(words), token |-> token, query |-> query,
   body |-> [is |-> "secrets", project |-> named]]

Projects == {"", "proj", "other"}

DopplerPaths ==
  {<<"v3", "configs">>, <<"v3", "configs", "config">>, <<"v3", "projects">>,
   <<"v3", "configs", "config", "secrets">>}

DopplerRequests ==
  {DopplerRequest(h, on, m, tok, query, named, w) :
     h \in Credentials, on \in BOOLEAN, m \in {"GET", "POST"}, tok \in BOOLEAN,
     query \in Strings(Projects, 2) \cup {<<>>}, named \in Projects, w \in DopplerPaths}

RequestsInit == incoming = Idle /\ answer = Pending

\* The policy is read for each request.
Arrive(R) ==
  /\ incoming = Idle
  /\ incoming' \in R
  /\ UNCHANGED answer

Finish ==
  /\ answer.action # "pending"
  /\ incoming' = Idle /\ answer' = Pending

RequestsNext ==
  \/ Arrive(ApiRequests) \/ Arrive(GraphQLRequests) \/ Arrive(GitRequests)
  \/ Arrive(FlyRequests) \/ Arrive(DopplerRequests)
  \/ incoming # Idle /\ (handleAPI \/ handleGit \/ handleFly \/ handleDoppler)
  \/ Finish

RequestsSpec == RequestsInit /\ [][RequestsNext]_requestVars

----------------------------------------------------------------------------
(* How the services read a request: external *)

\* What a segment's pattern means: the segment can be cut into pieces, one for each
\* symbol of the pattern, a star standing for any piece and the rest for one symbol.
SegmentFits(pat, seg) ==
  \E cut \in [0 .. Len(pat) -> 0 .. Len(seg)] :
    /\ cut[0] = 0 /\ cut[Len(pat)] = Len(seg)
    /\ \A i \in DOMAIN pat :
         /\ cut[i - 1] <= cut[i]
         /\ pat[i] = "*" \/ (cut[i] = cut[i - 1] + 1 /\ pat[i] \in {"?", seg[cut[i]]})

\* What a path's pattern means, with at most one ** in it, which stands for any segments.
Matches(g, path) ==
  LET deep  == {i \in DOMAIN g : g[i] = Seg("**")}
      extra == Len(path) - Len(g)
      fits(i, shift) == SegmentFits(g[i], path[i + shift])
  IN IF deep = {} THEN extra = 0 /\ \A i \in DOMAIN g : fits(i, 0)
     ELSE \E k \in deep : /\ extra >= -1
                          /\ \A i \in 1 .. k - 1 : fits(i, 0)
                          /\ \A i \in k + 1 .. Len(g) : fits(i, extra)

About(r, path) == r.glob = <<>> \/ Matches(r.glob, path)

\* GitHub's resource: the path before a query, decoded, without empty and dot segments.
Resource(path) ==
  LET Marks(seg) == {k \in DOMAIN seg : seg[k] \in {"?", "#"}}
      marks == {i \in DOMAIN path : Marks(path[i]) # {}}
      n     == IF marks = {} THEN Len(path) ELSE CHOOSE i \in marks : \A j \in marks : i <= j
      plain == [i \in 1 .. n |->
                  IF Marks(path[i]) = {} THEN path[i]
                  ELSE Upto(path[i], (CHOOSE k \in Marks(path[i]) :
                                        \A m \in Marks(path[i]) : k <= m) - 1)]
      res[i \in 0 .. n] ==
        IF i = 0 THEN <<>>
        ELSE CASE plain[i] \in {Seg(""), Seg(".")}       -> res[i - 1]
               [] plain[i] \in {Seg(".."), Seg("%2e%2e")} ->
                    IF res[i - 1] = <<>> THEN <<>> ELSE Upto(res[i - 1], Len(res[i - 1]) - 1)
               [] OTHER -> Append(res[i - 1], plain[i])
  IN res[n]

RestPermitted(p, method, resource) ==
  /\ \A owner \in extractAPIOwner(resource) : AllowedOwner(p, owner)
  /\ resource = <<>> \/ resource[1] # Seg("repositories")
  /\ ~\E r \in p.deny : r.kind = "api" /\ r.method \in {"", method} /\ About(r, resource)

\* GitHub may take either of two keys, run any operation, and finds any field in a fragment.
GraphQLRuns(b) ==
  UNION {b.keys[i].doc : i \in {i \in DOMAIN b.keys : b.keys[i].key # "variables"}}

\* git runs the commands of a push, which it uncompresses, up to the flush packet, and
\* refuses one with a broken line.
PushDeletes(b) ==
  LET ends == {i \in DOMAIN b.lines : b.lines[i].is = "flush"}
      n == IF ends = {} THEN Len(b.lines) ELSE CHOOSE i \in ends : \A j \in ends : i <= j
      before == Upto(b.lines, n)
  IN IF \E i \in DOMAIN before : before[i].is = "broken" THEN {}
     ELSE {before[i].ref : i \in {i \in DOMAIN before : before[i].is = "command" /\ before[i].deletes}}

GitPermitted(p, r, resource) ==
  /\ AllowedOwner(p, resource[1])
  /\ r.method = "POST" /\ Len(resource) = 3 /\ resource[3] = Seg("git-receive-pack") =>
       ~\E g \in p.deny :
          \/ g.kind = "git-push" /\ About(g, Upto(resource, 2))
          \/ g.kind = "git-delete-ref" /\ \E ref \in PushDeletes(r.body) : About(g, ref)

FlyPermitted(p, r, resource) ==
  /\ p.fly
  /\ \E e \in DefaultFlyEndpoints : e.method = r.method /\ About(e, resource)
  /\ "*" \in p.apps \/ resource[3] \in {Seg(a) : a \in p.apps}

\* Doppler may take the project from any place that names one.
NamedProjects(r) == ({r.query[i] : i \in DOMAIN r.query} \cup {r.body.project}) \ {""}

DopplerPermitted(p, r, resource) ==
  /\ p.doppler
  /\ \E e \in DefaultDopplerEndpoints : e.method = r.method /\ About(e, resource)
  /\ NamedProjects(r) # {} /\ NamedProjects(r) \subseteq p.projects

Permitted(r) ==
  LET resource == Resource(UpstreamPath(r))
  IN CASE r.surface = "API" /\ r.path = <<Seg("graphql")>> ->
            r.body.shape = "object" /\ ~r.body.disguised /\
            \A op \in GraphQLRuns(r.body) :
              op.type # "subscription" /\ op.fields \subseteq Allowlisted
       [] r.surface = "API" /\ r.path # <<Seg("graphql")>> ->
            RestPermitted(r.policy, r.method, resource)
       [] r.surface = "GIT"     -> GitPermitted(r.policy, r, resource)
       [] r.surface = "FLY"     -> FlyPermitted(r.policy, r, resource)
       [] r.surface = "DOPPLER" -> DopplerPermitted(r.policy, r, resource)

\* What the handlers let pass without looking at all of it. checkAPIPath is asked of
\* GitHub's API alone: a git or Fly path may have an empty or a dot segment or a mark in
\* it, which the service reads away. checkGraphQLRequest alone refuses a compressed body,
\* so one may delete refs in a push. And a Doppler request may name a second project.
Overlooked(r) ==
  \/ r.surface \in {"GIT", "FLY"} /\ ~checkAPIPath(UpstreamPath(r))
  \/ r.surface = "GIT" /\ r.body.encoded /\ PushDeletes(r.body) # {}
  \/ r.surface = "DOPPLER" /\ \E a, b \in NamedProjects(r) : a # b

\* Nothing goes upstream without the right handle, and nothing goes that the sender's
\* policy refuses in whatever way the service reads it: no denied or foreign resource of
\* GitHub's API through an odd path, no mutation off the list through a second key, a
\* second operation or a fragment; and, but for the requests that are overlooked, no
\* foreign repository, no denied push, no deletion of a protected ref, and no app,
\* project or endpoint out of scope.
ForwardedRequestsAreAllowed ==
  answer.sent =>
    /\ incoming.handle = IF incoming.surface \in {"API", "GIT"} THEN "basic" ELSE "bearer"
    /\ Permitted(incoming) \/ Overlooked(incoming)
=============================================================================
