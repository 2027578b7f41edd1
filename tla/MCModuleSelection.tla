------------------------- MODULE MCModuleSelection -------------------------
(* TLC instance of ModuleSelection (and of BuildRequest in it): a module   *)
(* "one", its second major version, and what clients make of them.         *)
EXTENDS ModuleSelection, TLC

One == <<1, 1>>
OneV2 == <<1, 2>>

MCReleases ==
    (One :> << <<1, 0>>, <<1, 1>> >>) @@ (OneV2 :> << <<2, 0>> >>)

Nothing == [m \in {One, OneV2} |-> Absent]

\* The second major version needs one of the first, whose newer release needs it.
MCNeeds ==
    (One :> (<<1, 0>> :> Nothing
             @@ <<1, 1>> :> [Nothing EXCEPT ![One] = <<1, 1>>, ![OneV2] = <<2, 0>>]))
    @@ (OneV2 :> (<<2, 0>> :> [Nothing EXCEPT ![One] = <<1, 1>>, ![OneV2] = <<2, 0>>]))

Of(m, query) == [module |-> m, query |-> query]

\* Replacements to be sorted, and the same ones in another order.
R1 == << <<1, 2>>, <<2, 3>> >>
R2 == << <<2, 3>>, <<1, 2>> >>

MCAsks ==
    {[plugins |-> << Of(One, Latest), Of(OneV2, Latest) >>, replacements |-> << >>],
     [plugins |-> << Of(OneV2, <<2, 0>>), Of(One, <<1, 0>>) >>, replacements |-> << >>],
     [plugins |-> << Of(One, <<1, 1>>) >>, replacements |-> R1],
     [plugins |-> << Of(One, <<1, 1>>) >>, replacements |-> R2],
     [plugins |-> << Of(One, <<2, 0>>), Of(OneV2, <<2, 0>>) >>, replacements |-> << >>],
     [plugins |-> << Of(One, <<1, 0>>), Of(One, Latest) >>, replacements |-> << >>],
     [plugins |-> << Of(OneV2, <<1, 0>>) >>, replacements |-> << >>]}
=============================================================================
