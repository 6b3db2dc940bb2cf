---------------------------- MODULE MCDemoSeeding ----------------------------
(* Two runs over a corpus of three texts, one with records of its own, of      *)
(* which the seeding takes the first two, and a scenario whose phases overlap  *)
(* in what they select.  The fixtures lack a model, or a wildcard.             *)
EXTENDS DemoSeeding

MCCorpus == <<"t1", "t2", "t3">>

MCPhases == << [filter |-> {"t3"}, count |-> 1], [filter |-> {"t2", "t3"}, count |-> 2] >>

MCRuns == {1, 2}

Full == {"t1", "*"}

MCFixtureSets ==
    { [model \in Models |-> CASE model = "sanity" -> {} [] model = "classification" -> {"*"} [] OTHER -> Full],
      [model \in Models |-> IF model = "extraction" THEN {"t1"} ELSE Full] }
==============================================================================
