------------------------------ MODULE GitHost ------------------------------
(***************************************************************************)
(* How pr.check and pull_request.review name a pull request, which         *)
(* credential they read it with, and what they report of it. Pure          *)
(* definitions over the git host's pull requests:                          *)
(*   pulls[n] = [head, base, open, merged, reviews]                        *)
(***************************************************************************)
EXTENDS PlanRules

CONSTANTS
  EnvRepo,       \* the repository the environment names, "" for none
  Credential,    \* "app", "host" (a token or the gh CLI), "none" or "misconfigured"
  BaseBranch,    \* PR_BASE_BRANCH, "" for none
  DefaultBranch  \* the repository's own default branch

ASSUME GitHostAssumption ==
  /\ EnvRepo \in {"", "own"} /\ Credential \in {"app", "host", "none", "misconfigured"}

At(in, key) == IF key \in DOMAIN in THEN in[key] ELSE Empty

\* firstNonEmpty over the keys an input may be given under.
firstNonEmpty(in, keys) ==
  LET given == {i \in DOMAIN keys : At(in, keys[i]) # Empty}
  IN IF given = {} THEN Empty ELSE At(in, keys[First(given)])

\* A reference names a repository and a number, only a number, or cannot be
\* read; no reference at all names nothing.
parsePullReference(v) ==
  CASE v = Empty -> [ok |-> TRUE, repo |-> "", number |-> 0]
    [] v.what = "url" -> [ok |-> v.n > 0, repo |-> "own", number |-> v.n]
    [] v.what = "url elsewhere" -> [ok |-> v.n > 0, repo |-> "elsewhere", number |-> v.n]
    [] v.what = "number" -> [ok |-> v.n > 0, repo |-> "", number |-> v.n]
    [] OTHER -> [ok |-> FALSE, repo |-> "", number |-> 0]

Reference(in) == parsePullReference(firstNonEmpty(in, <<"pr", "pr_url", "pull_request">>))

\* The repository the call is about, "" when nothing names one and
\* "contradiction" when the reference and "repo" disagree.
Repository(in) ==
  LET named == Reference(in).repo
      given == firstNonEmpty(in, <<"repo", "repository">>).what
  IN IF named # "" /\ given # "" /\ given # named THEN "contradiction"
     ELSE IF named # "" THEN named
     ELSE IF given # "" THEN given ELSE EnvRepo

\* tokenForRepo: an App token is minted for the repository (the call may
\* fail); without an App the host's own token is used.
tokenForRepo == CASE Credential = "app" -> {"app", "error"}
                  [] Credential = "host" -> {"host"}
                  [] Credential = "none" -> {""}
                  [] OTHER -> {"error"}

Token(t) == t \notin {"", "error"}

CanCheck(in) == /\ Reference(in).ok /\ Reference(in).number > 0
                /\ Repository(in) \notin {"", "contradiction"}

Pull(pulls, in) ==
  LET n == Reference(in).number
  IN IF Repository(in) = "own" /\ n \in DOMAIN pulls THEN {n} ELSE {}

YesNo(b) == Word(IF b THEN "true" ELSE "false")

\* PRCheck.Run's answer: the host does not have it, or the fields it reports.
CheckReport(pulls, found) ==
  IF found = {} THEN [k \in {"exists", "valid"} |-> Word("false")]
  ELSE LET n == CHOOSE n \in found : TRUE IN
       [k \in {"exists", "valid", "state", "merged", "number", "pr"} |->
          CASE k \in {"exists", "valid"} -> Word("true")
            [] k = "state" -> Word(IF pulls[n].open THEN "open" ELSE "closed")
            [] k = "merged" -> YesNo(pulls[n].merged)
            [] k = "number" -> Text("number", n)
            [] k = "pr" -> Text("url", n)]

\* pull_request.review takes a reference or the head branch.
CanReview(in) ==
  /\ Reference(in).ok
  /\ Reference(in).number > 0 \/ firstNonEmpty(in, <<"from", "from_branch", "head", "source">>) # Empty
  /\ Repository(in) \notin {"", "contradiction"}

\* resolveBase: the caller's, PR_BASE_BRANCH, the repository's default; a
\* repository that cannot be read falls back to main.
resolveBase(in) ==
  LET asked == firstNonEmpty(in, <<"to", "to_branch", "base", "target">>).what
  IN IF asked # "" THEN {asked}
     ELSE IF BaseBranch # "" THEN {BaseBranch} ELSE {DefaultBranch, "main"}

\* identifyPull: by number, and then the branches given along with it must
\* agree; by branches, the newest open one from head into base.
identifyPull(pulls, in, to) ==
  LET from == firstNonEmpty(in, <<"from", "from_branch", "head", "source">>).what
      asked == firstNonEmpty(in, <<"to", "to_branch", "base", "target">>).what
      open == {n \in DOMAIN pulls : pulls[n].open /\ pulls[n].head = from /\ pulls[n].base = to}
  IN IF Reference(in).number > 0
       THEN {n \in Pull(pulls, in) : from \in {"", pulls[n].head} /\ asked \in {"", pulls[n].base}}
     ELSE IF Repository(in) # "own" THEN {}
     ELSE {n \in open : \A m \in open : m <= n}

\* The report is about the pull request as it was read, with the reviews read
\* after it; it never says merged.
ReviewReport(seen, n, reviews) ==
  [k \in {"from", "to", "number", "pr", "state", "merged", "requires_human_approval", "reviews_count"} |->
     CASE k = "from" -> Word(seen.head)
       [] k = "to" -> Word(seen.base)
       [] k = "number" -> Text("number", n)
       [] k = "pr" -> Text("url", n)
       [] k = "state" -> Word(IF seen.open THEN "open" ELSE "closed")
       [] k = "merged" -> Word("false")
       [] k = "requires_human_approval" -> Word("true")
       [] k = "reviews_count" -> Text("count", reviews)]

\* code_edit's pr_url: the first url of the worker's report that names a pull
\* request; a number or owner/name#n in prose is not one.
pullRequestIn(report) ==
  LET urls == {i \in DOMAIN report : report[i].what \in {"url", "url elsewhere"} /\ report[i].n > 0}
  IN IF urls = {} THEN Empty ELSE report[First(urls)]
=============================================================================
