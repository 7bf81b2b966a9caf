------------------------------ MODULE Templates ------------------------------
(***************************************************************************)
(* The cache of text templates (txtTemplate.c).  Workers look a template   *)
(* up under templates_mutex, use it without the mutex while its locked     *)
(* count is above zero, read the file without the mutex when it is not     *)
(* cached, and decide without the mutex, when they release a template,     *)
(* whether its file is newer than it.  A template is one of the languages  *)
(* of a page; a file is the number of its version.                         *)
(***************************************************************************)
EXTENDS Naturals, Sequences, FiniteSets, FiniteSetsExt

CONSTANTS
  TmplThreads,    \* workers
  Languages,
  TEMPLATE_DEF_LANG,
  AcceptLanguages, \* what requests prefer: sequences of languages
  TEMPLATE_CACHE_SIZE,
  MaxVersion,     \* bound: versions of a file
  MaxBuilds       \* bound: pages built

ASSUME TemplatesAssumption ==
  /\ IsFiniteSet(TmplThreads)
  /\ TEMPLATE_DEF_LANG \in Languages /\ AcceptLanguages \subseteq Seq(Languages)
  /\ TEMPLATE_CACHE_SIZE \in Nat /\ MaxVersion \in Nat /\ MaxBuilds \in Nat

VARIABLES
  files,          \* language -> version of the file, 0 if it is not there
  templates,      \* slot -> txtTemplate_t
  tmplAt,         \* thread -> what it does, with which languages, template, text
  builds

tmplVars == <<files, templates, tmplAt, builds>>

Slots == 1..TEMPLATE_CACHE_SIZE
Empty == [lang |-> TEMPLATE_DEF_LANG, data |-> 0, locked |-> 0, must_free |-> FALSE]
NoThread == [at |-> "idle", langs |-> <<>>, slot |-> 0, text |-> 0, must_free |-> FALSE]

(* ci_txt_template_init.                                                   *)
TemplatesInit ==
  /\ files \in [Languages -> {0, 1}]
  /\ templates = [i \in Slots |-> Empty]
  /\ tmplAt = [t \in TmplThreads |-> NoThread]
  /\ builds = 0

(* Someone writes a new version of a file.                                 *)
Edit(l) ==
  /\ files[l] < MaxVersion
  /\ files' = [files EXCEPT ![l] = @ + 1]
  /\ UNCHANGED <<templates, tmplAt, builds>>

(***************************************************************************)
(* Finding                                                                 *)
(***************************************************************************)
templateFind(l) ==
  {i \in Slots : templates[i].data # 0 /\ ~templates[i].must_free /\ templates[i].lang = l}

(* templateFindFree: a slot without data.  The search for the least used   *)
(* one compares with 0 and finds none.                                     *)
templateFindFree == {i \in Slots : templates[i].data = 0}

(* templateLoadText tries the languages of the request, then the default.  *)
ci_txt_template_build_content(t, accept) ==
  /\ tmplAt[t].at = "idle" /\ builds < MaxBuilds /\ builds' = builds + 1
  /\ tmplAt' = [tmplAt EXCEPT ![t] = [NoThread EXCEPT !.at = "find", !.langs = Append(accept, TEMPLATE_DEF_LANG)]]
  /\ UNCHANGED <<files, templates>>

(* templateTryLoadText, the first part under the mutex.                    *)
TryFind(t) ==
  /\ tmplAt[t].at = "find"
  /\ LET found == templateFind(Head(tmplAt[t].langs))
     IN  IF found = {}
         THEN tmplAt' = [tmplAt EXCEPT ![t].at = "load"] /\ UNCHANGED templates
         ELSE /\ templates' = [templates EXCEPT ![Min(found)].locked = @ + 1]
              /\ tmplAt' = [tmplAt EXCEPT ![t].at = "use", ![t].slot = Min(found), ![t].text = templates[Min(found)].data]
  /\ UNCHANGED <<files, builds>>

(* Reading the file; without one, or if it cannot be read, the next        *)
(* language is tried.  After the last one there is only an error text.     *)
TryLoad(t) ==
  /\ tmplAt[t].at = "load"
  /\ \/ /\ files[Head(tmplAt[t].langs)] # 0
        /\ tmplAt' = [tmplAt EXCEPT ![t].at = "store", ![t].text = files[Head(tmplAt[t].langs)]]
     \/ tmplAt' = [tmplAt EXCEPT ![t] = IF Len(tmplAt[t].langs) = 1 THEN NoThread
                                        ELSE [tmplAt[t] EXCEPT !.at = "find", !.langs = Tail(@)]]
  /\ UNCHANGED <<files, templates, builds>>

(* The second part under the mutex; slot 0 is a template outside of the    *)
(* cache.                                                                  *)
TryStore(t) ==
  /\ tmplAt[t].at = "store"
  /\ IF templateFindFree = {}
     THEN tmplAt' = [tmplAt EXCEPT ![t].at = "use", ![t].slot = 0] /\ UNCHANGED templates
     ELSE LET i == Min(templateFindFree)
          IN  /\ templates' = [templates EXCEPT ![i] =
                   [lang |-> Head(tmplAt[t].langs), data |-> tmplAt[t].text, locked |-> @.locked + 1, must_free |-> FALSE]]
              /\ tmplAt' = [tmplAt EXCEPT ![t].at = "use", ![t].slot = i]
  /\ UNCHANGED <<files, builds>>

(***************************************************************************)
(* Releasing                                                               *)
(***************************************************************************)
(* templateExpired: the file is newer, and it is time to look (any time).  *)
templateExpired(tm) == {FALSE, files[tm.lang] > tm.data}

(* template_release of a template outside of the cache, or its part        *)
(* without the mutex.                                                      *)
StartRelease(t) ==
  /\ tmplAt[t].at = "use"
  /\ IF tmplAt[t].slot = 0 THEN tmplAt' = [tmplAt EXCEPT ![t] = NoThread]
     ELSE LET tm == templates[tmplAt[t].slot]
          IN  \E expired \in templateExpired(tm) :
                tmplAt' = [tmplAt EXCEPT ![t].at = "release", ![t].must_free = tm.must_free \/ expired]
  /\ UNCHANGED <<files, templates, builds>>

(* Mutant: freed although someone else uses it.                            *)
Released_Now(tm, must_free) ==
  LET n == IF tm.locked > 0 THEN tm.locked - 1 ELSE 0
  IN  IF must_free THEN [tm EXCEPT !.locked = n, !.data = 0]
      ELSE [tm EXCEPT !.locked = n, !.must_free = must_free]

(* Under the mutex: templateFree by the last user.  Otherwise must_free    *)
(* becomes what this thread has found, TRUE or FALSE.                      *)
Released(tm, must_free) ==
  LET n == IF tm.locked > 0 THEN tm.locked - 1 ELSE 0
  IN  IF must_free /\ n = 0 THEN [tm EXCEPT !.locked = n, !.data = 0]
      ELSE [tm EXCEPT !.locked = n, !.must_free = must_free]

template_release(t) ==
  /\ tmplAt[t].at = "release"
  /\ templates' = [templates EXCEPT ![tmplAt[t].slot] = Released(@, tmplAt[t].must_free)]
  /\ tmplAt' = [tmplAt EXCEPT ![t] = NoThread]
  /\ UNCHANGED <<files, builds>>

TemplatesNext ==
  \/ \E l \in Languages : Edit(l)
  \/ \E t \in TmplThreads :
       \/ \E accept \in AcceptLanguages : ci_txt_template_build_content(t, accept)
       \/ TryFind(t) \/ TryLoad(t) \/ TryStore(t) \/ StartRelease(t) \/ template_release(t)

TemplatesSpec == TemplatesInit /\ [][TemplatesNext]_tmplVars

(***************************************************************************)
(* Properties                                                              *)
(***************************************************************************)
UsersOf(i) == {t \in TmplThreads : tmplAt[t].at \in {"use", "release"} /\ tmplAt[t].slot = i}

(* A page is built from one text of the language it is for: a template is  *)
(* neither freed nor replaced while a thread uses it, whoever finds it     *)
(* expired meanwhile.  And no slot is lost: one that is to be freed has a  *)
(* user who will free it (templateTryLoadText, template_release).          *)
TemplatesHeld ==
  \A i \in Slots :
    /\ templates[i].locked = Cardinality(UsersOf(i))
    /\ \A t \in UsersOf(i) :
         /\ templates[i].data = tmplAt[t].text
         /\ templates[i].lang = Head(tmplAt[t].langs)
    /\ templates[i].data # 0 /\ templates[i].must_free => UsersOf(i) # {}
=============================================================================
