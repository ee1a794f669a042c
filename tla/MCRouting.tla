------------------------------ MODULE MCRouting ------------------------------
(* Routing on a small instance *)
EXTENDS Routing

CONSTANTS deepseek, custom, mock,  \* providers
          ds1, ds2, own,           \* models: two of deepseek's names, and another
          cheap, fast,             \* rule sets
          i1, i2

ProvidersPrefix == [m \in Models |-> IF m \in {ds1, ds2} THEN deepseek ELSE Nothing]

Entry(i, p, models) == [id |-> i, provider |-> p, models |-> models]

\* One of each; both have ds1; the other alone, with a model of the first one's
\* prefix or without; none
SmallTables == {<<Entry(i1, deepseek, {ds1}), Entry(i2, custom, {own})>>,
                <<Entry(i1, deepseek, {ds1}), Entry(i2, custom, {ds1, own})>>,
                <<Entry(i2, custom, {own, ds2})>>,
                <<Entry(i2, mock, {own}), Entry(i1, deepseek, {ds1})>>,
                <<>>}

Rule(match, order, strategy, candidates, fallback) ==
    [match |-> match, order |-> order, strategy |-> strategy,
     candidates |-> candidates, fallback |-> fallback]

To(m, max) == [model |-> m, max |-> max]

\* Tiers out of order, one of them without limit; then a fixed order, and tiers
\* that do not hold every prompt, behind a rule that counts for less
SmallRuleSets ==
    {[n \in {cheap} |-> <<Rule("*", 1, "token_tier",
          <<To(own, Unlimited), To(ds1, 2), To(ds2, 1)>>, <<ds1>>)>>],
     [n \in {cheap, fast} |->
          IF n = fast THEN <<Rule("*", 0, "fixed", <<To(ds2, 1), To(ds1, 1)>>, <<own>>)>>
          ELSE <<Rule(ds1, 2, "fixed", <<To(own, 1)>>, <<>>),
                 Rule(ds2, 1, "token_tier", <<To(ds1, 2), To(own, 1)>>, <<>>)>>]}
=============================================================================
