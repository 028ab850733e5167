--------------------------- MODULE MCEnforcement ---------------------------
\* Three entries and one parent.  The accepted decision and its replacement
\* share words; the constraint forbids what the decision's option names.
EXTENDS Enforcement

Alt(option, why) == [option |-> option, why |-> why]
Draft(kind, state, title, alts, body, private) ==
    [kind |-> kind, state |-> state, title |-> title, tags |-> <<>>, alts |-> alts,
     body |-> body, private |-> private, supersedes |-> {}]

RedisQueue == <<<<"a", "redis", "queue">>>>
Losing     == <<<<"redis", "loses", "data", "and", "the", "queues", "stall">>>>
NoCaching  == <<<<"no", "caching">>>>
MCLn    == <<0, 693, 1099, 1386, 1609, 1792, 1946, 2079, 2197, 2303>>
MCIds   == 1 .. 3
MCDrafts ==
    [i \in MCIds |->
        CASE i = 1 -> {Draft("decision", s, <<<<"sqlite", "file">>>>, <<Alt(RedisQueue, Losing)>>, <<>>, FALSE) :
                          s \in {"staged", "rejected"}}
          [] i = 2 -> {Draft("decision", "accepted", <<<<"sqlite", "queue">>>>,
                             <<Alt(<<<<"sqlite", "without", "a", "queue">>>>, <<>>)>>, <<>>, TRUE),
                       Draft("note", "active", <<<<"redis", "data">>>>, <<>>, <<>>, FALSE)}
          [] i = 3 -> {[Draft("constraint", "active", NoCaching, <<>>,
                              <<<<<<"redis", "but", "no", "cache">>>>>>, FALSE)
                           EXCEPT !.tags = <<<<"redis">>>>]}]
\* The second entry is read first, then the third, then the first.
MCCreated == <<1, 2, 2>>
MCNamespaces == {"me"}
MCHomes ==
    [n \in MCNamespaces |->
        {[visibility |-> v, store |-> s, tier |-> t,
          entries |-> 1 :> Draft("constraint", "active", <<<<"never", "stall">>>>, <<>>, <<>>, FALSE)
                   @@ 2 :> Draft("decision", "accepted", <<<<"file">>>>, <<Alt(<<<<"data">>>>, <<>>)>>, <<>>, FALSE)] :
            <<v, s, t>> \in {<<"public", "open", "workspace">>, <<"public", "open", "person">>,
                            <<"private", "torn", "workspace">>}}]
MCPlans == {RedisQueue, <<<<"caching", "loses", "data">>, <<"stall">>>>, <<<<"no", "redis", "queue">>>>,
            <<<<"sqlite", "file">>>>, <<<<"the">>>>}
============================================================================
