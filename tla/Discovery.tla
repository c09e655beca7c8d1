----------------------------- MODULE Discovery -----------------------------
(***************************************************************************)
(* Target discovery (worker/tasks/crawl.py): the pages a round is to       *)
(* ingest, from the menus of the seed sites and of the department sites    *)
(* the seeds name, the posts those pages list, a second try for the pages  *)
(* that failed, a last validation of the posts, and the graduation PDFs.   *)
(*                                                                         *)
(* A pass over many pages is one step: asyncio.gather returns the results  *)
(* in the order of its list and the fetches of a pass share nothing.  So   *)
(* do the HTML and the PDF discovery, and the PDFs come last here.         *)
(* Links the code filters out (foreign hosts, downloads, posts without     *)
(* /read/) are left out of the constants.                                  *)
(***************************************************************************)
EXTENDS Sublists, SequencesExt

CONSTANTS Url, Site,
          Seeds,        \* settings.crawl_seed_sites, as a sequence of sites
          Departments,  \* Departments[s]: sites that the department links of s lead to
          MainSites,    \* sites on www.honam.ac.kr
          Menu,         \* Menu[s]: sequence of [url, label]
          Posts,        \* Posts[u]: sequence of [url, label], the posts u lists
          Pdfs,         \* graduation PDFs, newest first, cut to crawl_pdf_year_limit
          SeedScope,    \* scope of a seed site
          SeedHost,     \* SeedHost[u]: the seed on whose host u is, or NoSite
          HostScope,    \* HostScope[u]: infer_source_scope of u's host
          PostPath,     \* pages with /read/ in their path
          WordsOf,      \* keyword groups in a URL or in a label
          Limits,       \* values of settings.crawl_target_limit; 0: no limit
          MaxTroubles,  \* bound: fetches and writes that go wrong, and edits
          NoSite

Page == Range(Pdfs) \cup Url

(* Menus and lists name pages, which are no sites.                         *)
ASSUME DiscoveryAssumption ==
    /\ Seeds \in Seq(Site) /\ Limits \subseteq Nat /\ MaxTroubles \in Nat
    /\ \A s \in Site : Departments[s] \in Seq(Site)
    /\ \A s \in Site : IsList(Menu[s]) /\ \A e \in Range(Menu[s]) : e.url \in Url
    /\ \A u \in Url : IsList(Posts[u]) /\ \A e \in Range(Posts[u]) : e.url \in Url
    /\ IsList(Pdfs)
    /\ Site \cap Page = {} /\ NoSite \notin Site \cup Page

(* The graduation page names a year once, and no menu links a graduation   *)
(* PDF.  That is the site's doing: the PDFs are appended to the targets    *)
(* without dedupe_targets (apply_crawl_target_limit).                      *)
ASSUME PdfAssumption == IsInjective(Pdfs) /\ Range(Pdfs) \cap Url = {}

VARIABLES stage,     \* where the round stands
          limit,     \* settings.crawl_target_limit
          queue,     \* main pages to fetch: [site, department]
          named,     \* seen_department_urls
          targets,   \* the targets collected so far
          verified,  \* verified_urls
          failures,  \* sites and pages reported as failures
          answers,   \* last answer of each site and page in this round
          troubles   \* how many things have gone wrong

discovery == <<stage, limit, queue, named, targets, verified, failures, answers, troubles>>

Answer == {"content", "empty", "fails"}

DiscoveryInit ==
    /\ stage = "idle" /\ limit \in Limits
    /\ queue = <<>> /\ named = {} /\ targets = <<>> /\ verified = {}
    /\ failures = {} /\ answers = [x \in Page \cup Site |-> "none"] /\ troubles = 0

(* How the fetches of a pass may end, within the bound.                    *)
Answers(asked) ==
    {out \in [asked -> Answer] :
        troubles + Cardinality({x \in asked : out[x] # "content"}) <= MaxTroubles}

Noted(out) ==
    /\ answers' = [x \in DOMAIN answers |-> IF x \in DOMAIN out THEN out[x] ELSE answers[x]]
    /\ troubles' = troubles + Cardinality({x \in DOMAIN out : out[x] # "content"})

Failed(out) == {x \in DOMAIN out : out[x] = "fails"}

-----------------------------------------------------------------------------
(* infer_page_kind.                                                        *)
KindRules == <<[kind |-> "schedule", says |-> "calendar", unless |-> "busGuide"],
               [kind |-> "certificate", says |-> "certificate", unless |-> "license"],
               [kind |-> "contact", says |-> "contact", unless |-> "busLocation"],
               [kind |-> "admission", says |-> "admission", unless |-> "entryYear"]>>

PageKind(url, menu) ==
    LET said == UNION {WordsOf[x] : x \in Range(menu) \cup {url}}
        rules == SelectSeq(KindRules, LAMBDA r : r.says \in said /\ r.unless \notin said)
    IN  CASE url \in PostPath -> "notice"
          [] url \notin PostPath /\ rules = <<>> -> "academic"
          [] OTHER -> Head(rules).kind

Target(url, site, menu, scope) ==
    [url |-> url, site |-> site, menu |-> menu, scope |-> scope, kind |-> PageKind(url, menu)]

(* dedupe_targets: the last target of a URL stays, at its place.           *)
Dedupe(list) ==
    Sublist(list, {i \in DOMAIN list : \A j \in DOMAIN list : list[j].url = list[i].url => j <= i})

(* limit_crawl_targets and apply_crawl_target_limit.                       *)
Limited(list) == IF limit = 0 \/ Len(list) <= limit THEN list ELSE SubSeq(list, 1, limit)

(* extract_menu_targets: a page on a seed's host has that seed's scope,    *)
(* except when a department's menu names it.                               *)
MenuScope(url, site, department) ==
    CASE department -> "department"
      [] ~department /\ SeedHost[url] # NoSite -> SeedScope[SeedHost[url]]
      [] OTHER -> SeedScope[site]

MenuTargets(site, department) ==
    Dedupe([i \in DOMAIN Menu[site] |->
              LET entry == Menu[site][i]
              IN  Target(entry.url, site, <<entry.label>>,
                         MenuScope(entry.url, site, department))])

(* extract_article_box_targets.                                            *)
PostTargets(parent) ==
    Dedupe([i \in DOMAIN Posts[parent.url] |->
              LET post == Posts[parent.url][i]
              IN  Target(post.url, parent.site, Append(parent.menu, post.label), parent.scope)])

Expansion(parent) == <<parent>> \o PostTargets(parent)

-----------------------------------------------------------------------------
StartDiscovery ==
    /\ stage = "idle" /\ stage' = "sites"
    /\ queue' = [i \in DOMAIN Seeds |-> [site |-> Seeds[i], department |-> FALSE]]
    /\ named' = {} /\ targets' = <<>> /\ verified' = {} /\ failures' = {}
    /\ answers' = [x \in DOMAIN answers |-> "none"]
    /\ UNCHANGED <<limit, troubles>>

(* extract_department_sites: each once, the university's own site never.   *)
DepartmentSites(site) ==
    LET links == Departments[site]
    IN  Sublist(links, {i \in DOMAIN links : /\ links[i] \notin MainSites
                                             /\ \A j \in 1..i - 1 : links[j] # links[i]})

DepartmentQueue(site) ==
    LET sites == DepartmentSites(site)
        new == Sublist(sites, {i \in DOMAIN sites : sites[i] \notin named})
    IN  [i \in DOMAIN new |-> [site |-> new[i], department |-> TRUE]]

LimitReached == limit > 0 /\ Len(Dedupe(targets)) >= limit

(* The main page of a seed or of a department: a failure is reported, a    *)
(* page that moved is passed over.                                         *)
FetchSite ==
    /\ stage = "sites" /\ queue # <<>>
    /\ LET next == Head(queue)
           new == DepartmentQueue(next.site)
       IN  /\ ~(next.department /\ LimitReached)
           /\ \E out \in Answers({next.site}) :
                /\ Noted(out)
                /\ failures' = failures \cup Failed(out)
                /\ IF out[next.site] = "content"
                   THEN /\ targets' = Limited(Dedupe(targets
                                              \o MenuTargets(next.site, next.department)))
                        /\ queue' = new \o Tail(queue)
                        /\ named' = named \cup {q.site : q \in Range(new)}
                   ELSE /\ queue' = Tail(queue)
                        /\ UNCHANGED <<targets, named>>
    /\ UNCHANGED <<stage, limit, verified>>

(* The limit is reached: the seed's other departments are not visited.     *)
SkipDepartments ==
    /\ stage = "sites" /\ queue # <<>>
    /\ Head(queue).department /\ LimitReached
    /\ queue' = Sublist(queue, {i \in DOMAIN queue : ~queue[i].department})
    /\ UNCHANGED <<stage, limit, named, targets, verified, failures, answers, troubles>>

(* The first pass of expand_article_box_targets_by_parent.                 *)
ExpandParents ==
    /\ stage = "sites" /\ queue = <<>>
    /\ \E out \in Answers({t.url : t \in Range(targets)}) : Noted(out)
    /\ stage' = "retry"
    /\ UNCHANGED <<limit, queue, named, targets, verified, failures>>

(* append_ordered_targets.                                                 *)
AppendOrdered(list, new) ==
    LET slots == limit - Len(Dedupe(list))
    IN  IF limit = 0 \/ slots >= Len(new) THEN list \o new
        ELSE list \o SubSeq(new, 1, slots)

(* What the two passes brought for a parent.                               *)
Brought(t, again) ==
    IF \/ answers[t.url] = "content"
       \/ t.url \in DOMAIN again /\ again[t.url] = "content"
    THEN Expansion(t) ELSE <<>>

(* Variant: a page that answered only the second time is not expanded.     *)
OrderedOnce(again) ==
    LET upTo[n \in 0..Len(targets)] ==
          IF n = 0 THEN <<>>
          ELSE AppendOrdered(upTo[n - 1], IF answers[targets[n].url] = "content"
                                          THEN Expansion(targets[n]) ELSE <<>>)
    IN  upTo[Len(targets)]

(* The parents with their posts, in the order of the menus.                *)
Ordered(again) ==
    LET upTo[n \in 0..Len(targets)] ==
          IF n = 0 THEN <<>> ELSE AppendOrdered(upTo[n - 1], Brought(targets[n], again))
    IN  upTo[Len(targets)]

(* Variant: whatever the second try came to.                               *)
VerifiedAnyhow(again) == {t.url : t \in Range(targets)}

(* A parent that answered counts as verified, with or without content; the *)
(* second time only with content.                                          *)
Verified(again) ==
    {t.url : t \in {p \in Range(targets) : answers[p.url] # "fails"}}
        \cup {u \in DOMAIN again : again[u] = "content"}

(* The second pass over what failed, and the list both passes give.        *)
RetryParents ==
    /\ stage = "retry"
    /\ LET failed == {t.url : t \in {p \in Range(targets) : answers[p.url] = "fails"}}
       IN  \E again \in Answers(failed) :
             /\ Noted(again)
             /\ failures' = failures \cup Failed(again)
             /\ verified' = Verified(again)
             /\ targets' = Limited(Dedupe(Ordered(again)))
    /\ stage' = "validate"
    /\ UNCHANGED <<limit, queue, named>>

(* validate_targets_with_failures over the targets nothing verified yet.   *)
ValidateTargets ==
    /\ stage = "validate"
    /\ \E out \in Answers({t.url : t \in Range(targets)} \ verified) :
         /\ Noted(out)
         /\ failures' = failures \cup Failed(out)
         /\ targets' = Sublist(targets, {i \in DOMAIN targets :
                                           \/ targets[i].url \in verified
                                           \/ out[targets[i].url] = "content"})
    /\ stage' = "pdf"
    /\ UNCHANGED <<limit, queue, named, verified>>

PdfTarget(url) == Target(url, NoSite, <<url>>, HostScope[url])

(* discover_pdf_targets: nothing catches a graduation page that fails, so  *)
(* the round ends with it; a page that moved gives no PDF.                 *)
FetchPdfs ==
    /\ stage = "pdf"
    /\ \E out \in Answers({NoSite}) :
         /\ troubles' = troubles + Cardinality({x \in {NoSite} : out[x] # "content"})
         /\ targets' = CASE out[NoSite] = "content" ->
                              Limited(targets \o [i \in DOMAIN Pdfs |-> PdfTarget(Pdfs[i])])
                         [] out[NoSite] = "empty" -> Limited(targets)
                         [] out[NoSite] = "fails" -> <<>>
         /\ stage' = IF out[NoSite] = "fails" THEN "idle" ELSE "found"
    /\ UNCHANGED <<limit, queue, named, verified, failures, answers>>

DiscoveryNext ==
    \/ StartDiscovery \/ FetchSite \/ SkipDepartments \/ ExpandParents
    \/ RetryParents \/ ValidateTargets \/ FetchPdfs

-----------------------------------------------------------------------------
(* Two targets of a round never share a URL - their fetch tasks run side   *)
(* by side and would both write the document - and the limit holds for the *)
(* pages and the PDFs together (dedupe_targets, apply_crawl_target_limit). *)
OneTargetPerPage ==
    stage = "found" =>
        /\ Cardinality({t.url : t \in Range(targets)}) = Len(targets)
        /\ limit > 0 => Len(targets) <= limit

(* A page is a target only if the last fetch of it in the round did not    *)
(* fail; one that came without an article is a target only where a menu    *)
(* names it and another page lists it as a post (verified_urls).           *)
TargetsAnswered ==
    stage = "found" =>
        \A t \in {p \in Range(targets) : p.url \notin Range(Pdfs)} :
            /\ answers[t.url] \in {"content", "empty"}
            /\ answers[t.url] = "empty" =>
                 /\ Len(t.menu) > 1
                 /\ \E s \in Site : \E e \in Range(Menu[s]) : e.url = t.url

(* What discovery hands to a round: no page twice, none that did not       *)
(* answer (dedupe_targets, verified_urls).                                 *)
TargetsAreSound == OneTargetPerPage /\ TargetsAnswered

(* Without a limit nothing that was listed is lost without a word: an      *)
(* entry of a menu that was read, a post of a menu's page that brought an  *)
(* article in one of the two passes, is a target, is reported as a         *)
(* failure, or came without an article.  A page that the last validation   *)
(* alone finds, as the post of another, is not searched for posts          *)
(* (discover_html_targets_with_failures, crawl.py:664).                    *)
NothingListedIsLost ==
    (stage = "found" /\ limit = 0) =>
        LET sites == {s \in Site : answers[s] = "content"}
            parents == {e.url : e \in UNION {Range(Menu[s]) : s \in sites}}
            posts == UNION {Range(Posts[p]) :
                              p \in {q \in parents \cap verified : answers[q] = "content"}}
        IN  \A u \in parents \cup {post.url : post \in posts} :
                \/ u \in {t.url : t \in Range(targets)} \cup failures
                \/ answers[u] = "empty"
=============================================================================
