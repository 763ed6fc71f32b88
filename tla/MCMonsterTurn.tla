--------------------------- MODULE MCMonsterTurn ---------------------------
(* Rows of monsters that encounters of the game start with. *)
EXTENDS MonsterTurn

\* Monsters met alone, whose moves only their history decides.
Alone == {"JawWorm", "SlaverBlue", "SlaverRed", "Looter", "GremlinNob", "Hexaghost", "Chosen",
          "SnakePlant", "Snecko", "BookOfStabbing", "SphericGuardian", "OrbWalker", "Maw",
          "SpireGrowth", "GiantHead", "Nemesis", "Transient", "CorruptHeart"}

\* Monsters met alone, that health losses or summons change.
Reactive == {"Lagavulin", "Guardian", "ShelledParasite", "WrithingMass", "Champ", "TimeEater",
             "LargeAcid", "LargeSpike"}

Duos == {<<"Louse", "Louse">>, <<"FungiBeast", "FungiBeast">>, <<"SmallAcid", "MediumSpike">>,
         <<"Looter", "Mugger">>, <<"Sentry", "SphericGuardian">>, <<"Deca", "Donu">>,
         <<"SpireShield", "SpireSpear">>, <<"Centurion", "Healer">>, <<"Byrd", "Chosen">>}

Trios == {<<"Sentry", "Sentry", "Sentry">>, <<"SlaverBlue", "Taskmaster", "SlaverRed">>,
          <<"Exploder", "Spiker", "Repulsor">>, <<"Byrd", "Byrd", "Byrd">>,
          <<"Cultist", "Cultist", "AwakenedOne">>, <<"Dagger", "Reptomancer", "Dagger">>,
          <<"GremlinTsundere", "GremlinWizard", "GremlinLeader">>}

Bounded(rows, a, b) == {[kinds |-> r, acts |-> a, blows |-> b] : r \in rows}

Rows ==
  Bounded({<<k>> : k \in Alone}, 6, 0)
    \cup Bounded({<<k>> : k \in Reactive}, 5, 1)
    \cup Bounded({<<"WrithingMass">>}, 3, 2)
    \cup Bounded({<<"Champ">>, <<"TimeEater">>, <<"Guardian">>, <<"BronzeAutomaton">>}, 6, 2)
    \cup Bounded({<<"Collector">>}, 9, 2)
    \cup Bounded({<<"SlimeBoss">>}, 5, 3)
    \cup Bounded(Duos, 5, 1)
    \cup Bounded(Trios, 4, 1)
    \cup Bounded({<<"GremlinTsundere", "GremlinWizard", "GremlinLeader">>}, 7, 2)
    \cup Bounded({<<"Dagger", "Reptomancer", "Dagger">>}, 9, 1)
    \cup Bounded({<<"Cultist", "Cultist", "AwakenedOne">>}, 5, 4)
    \cup Bounded({<<"Darkling", "Darkling", "Darkling">>}, 4, 3)
============================================================================
