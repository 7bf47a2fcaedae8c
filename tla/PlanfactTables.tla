--------------------------- MODULE PlanfactTables ---------------------------
(***************************************************************************)
(* How PlanfactSourceService.confirm makes its tables of a plan and a fact *)
(* file: the plan is unrolled by period, the facts are summed by cost      *)
(* centre (CFO) and by article, CFOs and articles of the facts are matched *)
(* with those of the plan, and the two sides are joined.  A table is a set *)
(* of rows; a row carries the numbers of the file rows it stands for.      *)
(* Money is whole; labels and keys are values with their normal forms      *)
(* given; no extra key column is configured.                               *)
(***************************************************************************)
EXTENDS Integers, Sequences, FiniteSets, FiniteSetsExt, Functions

CONSTANTS
    Cfos, CfoKey,     \* spellings of CFOs; normalize_match_key
    Labels,           \* article labels, among them the keys
    Normal,           \* normalize_article_key
    Code,             \* extract_article_code
    Dictionary,       \* _ARTICLE_DICTIONARY
    Score,            \* _article_similarity of two keys, in per cent
    NoKey,            \* the empty key
    Periods,          \* months
    NoDate,           \* of a fact whose date cannot be read
    Plans, Facts,     \* files, sequences of rows; a plan row has amounts by month
    CfoMaps,          \* config["cfo_mapping"]: CFO keys to CFOs
    ArticleMaps,      \* config["article_mapping"]: keys to keys
    Modes             \* article_key_mode: "name", "pl_code"

ASSUME TablesAssumption ==
    /\ CfoKey \in [Cfos -> Cfos]
    /\ Normal \in [Labels -> Labels] /\ Code \in [Labels -> Labels]
    /\ \A l \in Labels : Code[l] \in {NoKey, Normal[Code[l]]}
    /\ Normal[NoKey] = NoKey /\ Code[NoKey] = NoKey
    /\ \A l \in Labels :   \* normalize_article_key ends with the dictionary
         Normal[l] \in DOMAIN Dictionary => Dictionary[Normal[l]] = Normal[l]
    /\ Score \in [Labels \X Labels -> 0..100]
    /\ NoDate \notin Periods
    /\ \A p \in Plans : \E months \in SUBSET Periods :   \* the file's columns
         IsFiniteSet(months) /\ p \in Seq([cfo: Cfos, article: Labels, amount: [months -> Int]])
    /\ \A f \in Facts :
         f \in Seq([cfo: Cfos, article: Labels, period: Periods \union {NoDate}, amount: Int])
    /\ \A m \in CfoMaps : \A k \in DOMAIN m : m[k] \in Cfos
    /\ Modes \subseteq {"name", "pl_code"}

VARIABLES
    plan, fact,           \* the files
    cfoMap, articleMap, mode,
    stage,                \* how far confirm has come
    planLong,             \* planfact_plan_long
    monthly, byLabel,     \* fact_monthly, fact_article
    report,               \* cfo_matching: the status of every CFO key
    byCfo, byArticle      \* planfact_by_cfo_period, planfact_by_cfo_article_period

files     == <<plan, fact, cfoMap, articleMap, mode>>
tables    == <<planLong, monthly, byLabel, report, byCfo, byArticle>>
tableVars == <<files, stage, tables>>

-----------------------------------------------------------------------------
(* Rows and groups.                                                         *)

IdsOfOne(rows) == (CHOOSE r \in rows : TRUE).ids
Ids(rows)      == UNION { r.ids : r \in rows }
Total(rows)    == SumFunction([r \in rows |-> r.amount])

CfoPeriod        == {"cfo", "period"}
CfoArticlePeriod == {"cfo", "article", "period"}

Key(r, columns)        == [c \in columns |-> r[c]]
Grouped(rows, columns) == \A r, s \in rows : Key(r, columns) = Key(s, columns) => r = s

\* groupby(...).agg(sum, collected row numbers); the other columns are those
\* of the first row of the group.
Group(rows, columns) ==
    { LET same  == { s \in rows : Key(s, columns) = Key(r, columns) }
          first == CHOOSE s \in same : \A t \in same : Min(s.ids) <= Min(t.ids)
      IN [first EXCEPT !.amount = Total(same), !.ids = Ids(same)] : r \in rows }

ArticleKey(label) == IF mode = "pl_code" THEN Code[label] ELSE Normal[label]

\* _build_plan_long, with all of monthly_columns.
PlanMonths == UNION { DOMAIN plan[i].amount : i \in DOMAIN plan }
PlanLong ==
    { [cfo |-> plan[i].cfo, article |-> ArticleKey(plan[i].article), period |-> p,
       amount |-> plan[i].amount[p], ids |-> {i}] : i \in DOMAIN plan, p \in PlanMonths }

\* _build_fact_monthly: rows without a date are dropped.
Dated      == { i \in DOMAIN fact : fact[i].period # NoDate }
FactRows ==
    { [cfo |-> fact[i].cfo, article |-> ArticleKey(fact[i].article), label |-> fact[i].article,
       period |-> fact[i].period, amount |-> fact[i].amount, ids |-> {i},
       match |-> "unmatched"] : i \in Dated }

FactPeriods == { r.period : r \in monthly }

-----------------------------------------------------------------------------
(* Matching CFOs.                                                           *)

\* The last of the plan's spellings, in the order of their first appearance.
SpellingOf(cfo) ==
    LET first(c)  == Min({ i \in DOMAIN plan : plan[i].cfo = c })
        spellings == { c \in { plan[i].cfo : i \in DOMAIN plan } : CfoKey[c] = CfoKey[cfo] }
    IN IF spellings = {} THEN cfo
       ELSE CHOOSE c \in spellings : \A d \in spellings : first(d) <= first(c)

MappedAsWritten(r) ==
    IF CfoKey[r.cfo] \in DOMAIN cfoMap
    THEN [r EXCEPT !.cfo = cfoMap[CfoKey[r.cfo]]] ELSE r
Mapped(r) ==
    IF CfoKey[r.cfo] \in DOMAIN cfoMap
    THEN [r EXCEPT !.cfo = SpellingOf(cfoMap[CfoKey[r.cfo]])] ELSE r

\* _apply_cfo_mapping, which sums again what it has brought together.
LeftApart(rows) == rows
Regrouped(rows) == Group(rows, CfoPeriod)

MappedMonthly == Regrouped({ Mapped(r) : r \in monthly })
MappedByLabel == Group({ Mapped(r) : r \in byLabel }, CfoArticlePeriod)

\* _cfo_match_report, by normal forms, over the periods with facts.
Report(facts) ==
    LET periods == { r.period : r \in facts }
        scope   == { r \in planLong : periods # {} => r.period \in periods }
        keys    == { CfoKey[r.cfo] : r \in scope \union facts }
        ofKey(rows, k) == { r \in rows : CfoKey[r.cfo] = k }
    IN [k \in keys |-> IF ofKey(facts, k) = {} THEN "plan_only"
                       ELSE IF Total(ofKey(scope, k)) = 0 THEN "fact_only" ELSE "matched"]

-----------------------------------------------------------------------------
(* Matching articles.                                                       *)

\* _plan_article_lookup: the plan's articles of a CFO, whatever the period.
Candidates(cfo) == { r.article : r \in { q \in planLong : q.cfo = cfo } } \ {NoKey}

Match(type, key) == [type |-> type, article |-> key]

\* The best of the candidates by similarity.
Fuzzy(key, candidates) ==
    LET best == CHOOSE k \in candidates : \A j \in candidates : Score[key, j] <= Score[key, k]
    IN IF candidates = {} \/ Score[key, best] < 75 THEN Match("unmatched", NoKey)
       ELSE Match(IF Score[key, best] >= 90 THEN "fuzzy_auto" ELSE "fuzzy_suggested", best)

\* _match_fact_article; a row without a key is matched by its label.  A key is
\* normalised once more, and what is found exactly then is not what is joined: the
\* stop phrases are taken out after leading numbers, so that the key "2024 rent" of
\* "payment 2024 rent" becomes "rent".
Stable(key) == Normal[key] = key
MatchFactArticle(r) ==
    LET key        == Normal[IF r.article # NoKey THEN r.article ELSE r.label]
        candidates == Candidates(r.cfo)
        byHand     == key \in DOMAIN articleMap
        meant      == IF byHand THEN articleMap[key]
                      ELSE IF key \in DOMAIN Dictionary THEN Dictionary[key] ELSE NoKey
    IN IF key = NoKey THEN Match("unmatched", NoKey)
       ELSE IF key \in candidates THEN Match("exact", key)
       ELSE IF Normal[meant] \in candidates
            THEN Match(IF byHand THEN "manual" ELSE "dictionary", Normal[meant])
       ELSE IF mode = "pl_code" THEN Match("unmatched", NoKey)
       ELSE Fuzzy(key, candidates)

Applied       == {"dictionary", "fuzzy_auto", "manual"}
AppliesAll(m) == m.type \in Applied \union {"fuzzy_suggested"}
Applies(m)    == m.type \in Applied

\* _apply_article_matching, which sums nothing again.
MatchRow(r) ==
    LET m == MatchFactArticle(r)
    IN [r EXCEPT !.match = m.type, !.article = IF Applies(m) THEN m.article ELSE @]

-----------------------------------------------------------------------------
(* Joining.                                                                 *)

Empty == [amount |-> 0, ids |-> {}, match |-> "none"]

Joined(key, p, f) ==
    [key |-> key, plan |-> p.amount, fact |-> f.amount, variance |-> f.amount - p.amount,
     planIds |-> p.ids, factIds |-> f.ids, match |-> f.match]

\* merge(..., how="outer"), absent amounts filled with zero.
Keys(rows, columns) == { Key(r, columns) : r \in rows }
InnerMerge(ps, fs, columns) ==
    { Joined(Key(x[1], columns), x[1], x[2]) :
          x \in { y \in ps \X fs : Key(y[1], columns) = Key(y[2], columns) } }
Merge(ps, fs, columns) ==
    InnerMerge(ps, fs, columns)
    \union { Joined(Key(p, columns), p, Empty) :
               p \in { q \in ps : Key(q, columns) \notin Keys(fs, columns) } }
    \union { Joined(Key(f, columns), Empty, f) :
               f \in { g \in fs : Key(g, columns) \notin Keys(ps, columns) } }

\* Plans of all periods, or of those with facts.
JoinedPlan == { r \in planLong : r.period \in FactPeriods }

-----------------------------------------------------------------------------
(* confirm                                                                  *)

TablesInit ==
    /\ plan \in Plans /\ fact \in Facts
    /\ cfoMap \in CfoMaps /\ articleMap \in ArticleMaps /\ mode \in Modes
    /\ stage = "read"
    /\ planLong = {} /\ monthly = {} /\ byLabel = {} /\ byCfo = {} /\ byArticle = {}
    /\ report = [k \in {} |-> "none"]

Build ==
    /\ stage = "read" /\ stage' = "built"
    /\ planLong' = PlanLong
    /\ monthly' = Group(FactRows, CfoPeriod)
    /\ byLabel' = Group(FactRows, CfoArticlePeriod)
    /\ UNCHANGED <<files, report, byCfo, byArticle>>

ApplyCfoMapping ==
    /\ stage = "built" /\ stage' = "mapped"
    /\ monthly' = IF DOMAIN cfoMap = {} THEN monthly ELSE MappedMonthly
    /\ byLabel' = IF DOMAIN cfoMap = {} THEN byLabel ELSE MappedByLabel
    /\ report' = Report(monthly')
    /\ UNCHANGED <<files, planLong, byCfo, byArticle>>

ApplyArticleMatching ==
    /\ stage = "mapped" /\ stage' = "matched"
    /\ byLabel' = IF planLong = {} THEN byLabel ELSE { MatchRow(r) : r \in byLabel }
    /\ UNCHANGED <<files, planLong, monthly, report, byCfo, byArticle>>

Join ==
    /\ stage = "matched" /\ stage' = "joined"
    /\ byCfo' = Merge(Group(JoinedPlan, CfoPeriod), monthly, CfoPeriod)
    /\ byArticle' = Merge(Group(JoinedPlan, CfoArticlePeriod), byLabel, CfoArticlePeriod)
    /\ UNCHANGED <<files, planLong, monthly, byLabel, report>>

TablesNext == Build \/ ApplyCfoMapping \/ ApplyArticleMatching \/ Join

TablesSpec == TablesInit /\ [][TablesNext]_tableVars

-----------------------------------------------------------------------------
(* Properties                                                               *)

PlanSum(rows) == SumFunction([r \in rows |-> r.plan])
FactSum(rows) == SumFunction([r \in rows |-> r.fact])

Matched == Applied \union {"exact"}

\* Types; and grouped tables have one row for each key.
TablesTypeOK ==
    /\ stage \in {"read", "built", "mapped", "matched", "joined"}
    /\ \A r \in planLong \union monthly \union byLabel :
         r.cfo \in Cfos /\ r.period \in Periods /\ r.amount \in Int
    /\ \A r \in byLabel : r.match \in Matched \union {"unmatched", "fuzzy_suggested"}
    /\ \A k \in DOMAIN report : report[k] \in {"matched", "fact_only", "plan_only"}
    /\ Grouped(monthly, CfoPeriod)
    /\ stage \in {"built", "mapped"} => Grouped(byLabel, CfoArticlePeriod)

\* No fact is lost and none is counted twice, by matching or by joining:
\* whatever is mapped by hand or by likeness, both tables tell the same sum.
FactsConserved ==
    LET all == SumFunction([i \in Dated |-> fact[i].amount])
    IN /\ stage # "read" => Total(monthly) = all /\ Total(byLabel) = all
       /\ stage = "joined" => FactSum(byCfo) = all /\ FactSum(byArticle) = all

\* The plan of the months with facts is counted once by CFO, and by article
\* too, unless facts of two articles were matched with one article of the plan.
PlanConserved ==
    LET due == Total({ r \in planLong : r.period \in { fact[i].period : i \in DOMAIN fact } })
    IN stage = "joined" =>
         /\ PlanSum(byCfo) = due
         /\ Grouped(byLabel, CfoArticlePeriod) => PlanSum(byArticle) = due

\* Both: no money appears or goes while the files become tables.
SumsConserved == FactsConserved /\ PlanConserved

\* Without that restriction (skills/planfact_variance_analysis/SKILL.md: the
\* plan of a CFO and an article is SUM(plan_amount) over its rows).
PlanCountedOnce == stage = "joined" => PlanSum(byArticle) = PlanSum(byCfo)

\* The row numbers of a row are those of the rows it sums, and every dated
\* fact is in one row of each table (build_artifact_validation follows them).
LineageExact ==
    stage = "joined" =>
        \A table \in {byCfo, byArticle} :
            /\ \A r \in table :
                 /\ r.fact = SumFunction([i \in r.factIds |-> fact[i].amount])
                 /\ r.plan = SumFunction([i \in r.planIds |-> plan[i].amount[r.key.period]])
            /\ UNION { r.factIds : r \in table } = Dated
            /\ \A r, s \in table : r # s => r.factIds \intersect s.factIds = {}

\* What is reported as matched is joined with the plan of its month, and what
\* is reported as unmatched or merely suggested is not.  Excepted is what keeps its
\* own key though it was matched by another: a fact without a key, matched by its
\* label, and one whose key is not its own normal form, unless it took over the
\* key of the plan.
MatchesAreJoined ==
    stage = "joined" =>
        \A r \in byArticle :
            (r.factIds # {} /\ r.key.article # NoKey /\ (r.match \in Applied \/ Stable(r.key.article)))
                => (r.planIds # {} <=> r.match \in Matched /\ r.key.period \in PlanMonths)

\* A CFO mapped by hand to a CFO of the plan, however that is written, meets
\* the plan of its month.  (cfo_matching promises less of the others: it goes by
\* normal forms, the join by spellings, and a CFO that the facts spell otherwise
\* and nobody mapped is reported as matched and joined with no plan.)
MappedCfosJoin ==
    stage = "joined" =>
        \A r \in byCfo : \A i \in r.factIds :
            LET key == CfoKey[fact[i].cfo]
            IN (/\ key \in DOMAIN cfoMap
                /\ \E p \in planLong : CfoKey[p.cfo] = CfoKey[cfoMap[key]] /\ p.period = r.key.period)
                  => r.planIds # {}

=============================================================================
