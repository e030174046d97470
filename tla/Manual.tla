------------------------------- MODULE Manual -------------------------------
(***************************************************************************)
(* What keeps four languages and the manual true to the app: the language  *)
(* tables and the proxy that reads them (spa/src/i18n/index.js), their     *)
(* check (spa/tools/i18n-check.mjs, run by spa/build.mjs), and the build   *)
(* of the manual from the user stories (docs/build.mjs).  Contributors     *)
(* edit app, tables, coverage list and stories in any order; the builds    *)
(* accept or refuse what they find.                                        *)
(*                                                                         *)
(* A text has a kind: a string, or a function of as many arguments.  A     *)
(* story names the screens it covers, its sections and the texts it quotes.*)
(***************************************************************************)
EXTENDS Integers, FiniteSets

CONSTANTS
  LANGS, Ref,       \* the languages and the reference, de
  Key, Kind,        \* keys of the tables; kinds of their texts
  Part, Screen,     \* parts of the UI (tabs, steps, cards); entries of coverage.json
  Story,            \* ids of the stories
  SECTIONS, REQUIRED_SECTIONS,
  Start,            \* the project the edits begin with: [tables, ui, coverage, stories]
  MaxEdits          \* bound: edits

Missing == "none"

\* A table, the list of a screen, and a story.
Table  == [Key -> Kind \cup {Missing}]
PartList == {{Missing}} \cup SUBSET Part
Text   == [screens : SUBSET Screen, sections : SUBSET SECTIONS, quotes : SUBSET Key,
           chapter : BOOLEAN]

ASSUME ManualAssumption ==
  /\ Ref \in LANGS /\ REQUIRED_SECTIONS \subseteq SECTIONS /\ Missing \notin Kind
  /\ MaxEdits \in Nat
  /\ Start \in [tables : [LANGS -> Table], ui : SUBSET Part, coverage : [Screen -> PartList],
                stories : [LANGS -> [Story -> Text]]]

VARIABLES
  tables,    \* [lang -> [key -> its kind, or None]]
  ui,        \* the parts the app has
  coverage,  \* the entries of coverage.json: [screen -> parts listed, or None]
  stories,   \* [lang -> [id -> NoStory, or [screens, sections, quotes, chapter]]]
  edits

maVars == <<tables, ui, coverage, stories, edits>>

NoStory == [screens |-> {}, sections |-> {}, quotes |-> {}, chapter |-> FALSE]

MaInit == /\ tables = Start.tables /\ ui = Start.ui /\ coverage = Start.coverage
          /\ stories = Start.stories /\ edits = 0

MayEdit == edits < MaxEdits /\ edits' = edits + 1

TextEdited ==
  /\ MayEdit
  /\ \E l \in LANGS, k \in Key, v \in Kind \cup {Missing} : tables' = [tables EXCEPT ![l][k] = v]
  /\ UNCHANGED <<ui, coverage, stories>>

AppEdited ==
  /\ MayEdit
  /\ \E p \in Part : ui' = IF p \in ui THEN ui \ {p} ELSE ui \cup {p}
  /\ UNCHANGED <<tables, coverage, stories>>

CoverageEdited ==
  /\ MayEdit
  /\ \E s \in Screen, ps \in PartList : coverage' = [coverage EXCEPT ![s] = ps]
  /\ UNCHANGED <<tables, ui, stories>>

Flip(s, x) == IF x \in s THEN s \ {x} ELSE s \cup {x}

\* A story comes, goes, or changes in one place.
StoryEdited ==
  /\ MayEdit
  /\ \E l \in LANGS, i \in Story :
       LET old == stories[l][i] IN
       \E new \in {NoStory}
                  \cup {[old EXCEPT !.screens = Flip(@, s), !.chapter = TRUE] : s \in Screen}
                  \cup {[old EXCEPT !.sections = Flip(@, s), !.chapter = TRUE] : s \in SECTIONS}
                  \cup {[old EXCEPT !.quotes = Flip(@, k), !.chapter = TRUE] : k \in Key}
                  \cup {stories[m][i] : m \in LANGS} :
         stories' = [stories EXCEPT ![l][i] = new]
  /\ UNCHANGED <<tables, ui, coverage>>

MaNext == TextEdited \/ AppEdited \/ CoverageEdited \/ StoryEdited
MaSpec == MaInit /\ [][MaNext]_maVars

-----------------------------------------------------------------------------
(* The builds *)

\* checkLanguageTables: the problems of each table compared with the reference.
checkLanguageTables ==
  {p \in (LANGS \ {Ref}) \X Key : tables[p[1]][p[2]] # tables[Ref][p[2]]}

spaBuilds == checkLanguageTables = {}

\* S: a text of the table in use, of the reference's without.
S(l, k) == IF tables[l][k] = Missing THEN [from |-> Ref, kind |-> tables[Ref][k]]
           ELSE [from |-> l, kind |-> tables[l][k]]

COVERAGE  == {s \in Screen : coverage[s] # {Missing}}
Has(l, i) == stories[l][i] # NoStory
ids       == {i \in Story : Has(Ref, i)}

\* parseStory, of a story's file.
parseProblem(s) == \/ ~(REQUIRED_SECTIONS \subseteq s.sections)
                   \/ s.screens = {}
                   \/ ~(s.screens \subseteq COVERAGE)

\* renderMarkdown: a quoted text must be there.
renderProblem(l, s) == \E k \in s.quotes : tables[l][k] = Missing

\* Mutant: the quotes of a translation are not compared.
differs_Unquoted(l, i) == \/ ~Has(l, i)
                          \/ stories[l][i].screens # stories[Ref][i].screens
                          \/ stories[l][i].sections # stories[Ref][i].sections

\* A story of another language against the original: screens, sections and quotes.
differs(l, i) == \/ ~Has(l, i)
                 \/ stories[l][i].screens # stories[Ref][i].screens
                 \/ stories[l][i].sections # stories[Ref][i].sections
                 \/ stories[l][i].quotes # stories[Ref][i].quotes

listed == UNION {coverage[s] : s \in COVERAGE}

manualProblem ==
  \/ checkLanguageTables # {}
  \/ \E l \in LANGS, i \in Story : Has(l, i) /\ parseProblem(stories[l][i])
  \/ ids = {}
  \/ \E l \in LANGS \ {Ref} : \/ \E i \in ids : differs(l, i)
                              \/ \E i \in Story \ ids : Has(l, i)
  \/ ui # listed
  \/ \E s \in COVERAGE : \A i \in ids : s \notin stories[Ref][i].screens
  \/ \E l \in LANGS, i \in ids : renderProblem(l, stories[l][i])

\* The pages of a language: the stories of the reference that it has.
site(l) == {i \in ids : Has(l, i)}

-----------------------------------------------------------------------------
(* Properties *)

MaTypeOK ==
  /\ tables \in [LANGS -> Table] /\ ui \subseteq Part /\ edits \in 0..MaxEdits
  /\ coverage \in [Screen -> PartList] /\ stories \in [LANGS -> [Story -> Text]]

\* docs/build.mjs:47-51: a manual that builds tells, in every language, the steps of every
\* part of the app, and of none the app has lost.
EveryPartDescribed ==
  ~manualProblem =>
    /\ \A l \in LANGS, p \in ui : \E i \in site(l), s \in COVERAGE :
         /\ p \in coverage[s] /\ s \in stories[l][i].screens
         /\ REQUIRED_SECTIONS \subseteq stories[l][i].sections
    /\ \A s \in COVERAGE : coverage[s] \subseteq ui

\* docs/build.mjs:4-7 and :291: the labels a story quotes are those the device shows in that
\* language, and every translation quotes the same ones.
LabelsOfTheDevice ==
  ~manualProblem =>
    /\ \A l \in LANGS, i \in Story : Has(l, i) =>
         /\ i \in site(l)
         /\ \A k \in stories[l][i].quotes : S(l, k).from = l
    /\ \A l, m \in LANGS, i \in Story : stories[l][i].quotes = stories[m][i].quotes

\* spa/build.mjs:17: an app that builds shows no German in another language, and no text
\* that takes other arguments than it is given.
OwnLanguage ==
  spaBuilds => \A l \in LANGS, k \in Key :
                 tables[Ref][k] # Missing => S(l, k) = [from |-> l, kind |-> tables[Ref][k]]

\* docs/build.mjs, i18n-check.mjs: a manual and an app that build are complete in every
\* language, in its own words.
ManualTrue == EveryPartDescribed /\ LabelsOfTheDevice /\ OwnLanguage
=============================================================================
