--------------------------- MODULE QueryExpansion ----------------------------
(***************************************************************************)
(* The search queries of a discovery run: those of its mode or profile,    *)
(* and those about the people, opponents and competitions of the day.  A   *)
(* query is its family, the words that follow the club's name (or, in the  *)
(* profiles, the quoted name), its window in hours, and its id.            *)
(***************************************************************************)
EXTENDS Integers, SequencesExt

CONSTANTS SlugOf,      \* [name -> its slug]: what of a name an id keeps
          PlaceOf      \* [name -> its place in the order of names]

NoName == "none"

WindowHours == [BREAKING |-> 3, HOT |-> 12, CURRENT |-> 24, BACKGROUND |-> 72]

\* Families with the window their query looks back over.
Family(name, window) == [family |-> name, words |-> <<>>, hours |-> WindowHours[window]]

BaseFamilies == <<
    Family("LATEST", "CURRENT"), Family("BREAKING", "BREAKING"), Family("TRENDING", "HOT"),
    Family("INJURY", "CURRENT"), Family("TRANSFER", "CURRENT"), Family("MANAGER", "CURRENT"),
    Family("TACTICS", "CURRENT"), Family("STATS", "CURRENT"), Family("CONTROVERSY", "HOT"),
    Family("FAN_REACTION", "HOT"), Family("REDDIT", "HOT"), Family("ACADEMY", "CURRENT"),
    Family("INTERVIEW", "CURRENT"), Family("PRESS_CONFERENCE", "BREAKING"),
    Family("NEXT_MATCH", "CURRENT")>>

CoreFamilies == <<
    Family("LATEST", "CURRENT"), Family("BREAKING", "BREAKING"), Family("INJURY", "CURRENT"),
    Family("TRANSFER", "CURRENT"), Family("PRESS_CONFERENCE", "BREAKING"), Family("MANAGER", "CURRENT")>>

ModeFamilies ==
    [GENERAL   |-> {BaseFamilies[i].family : i \in DOMAIN BaseFamilies},
     BREAKING  |-> {"LATEST", "BREAKING", "TRENDING", "INJURY", "TRANSFER", "MANAGER", "PRESS_CONFERENCE"},
     TRANSFERS |-> {"LATEST", "BREAKING", "TRANSFER", "MANAGER", "FAN_REACTION"},
     MATCH     |-> {"LATEST", "NEXT_MATCH", "TACTICS", "STATS", "FAN_REACTION", "PRESS_CONFERENCE"},
     PLAYERS   |-> {"LATEST", "INJURY", "STATS", "INTERVIEW", "FAN_REACTION", "PLAYER"},
     COMMUNITY |-> {"TRENDING", "CONTROVERSY", "FAN_REACTION", "REDDIT"}]

DynamicFamilies == {"PLAYER", "OPPONENT", "COMPETITION", "ENTITY"}

Taken(s, n) == SubSeq(s, 1, Min({Len(s), n}))
Chosen(s, Test(_)) == SelectSeq(s, Test)
Mapped(s, F(_)) == [i \in DOMAIN s |-> F(s[i])]

\* The first occurrence of each element.
Unique(s) == FoldLeft(LAMBDA r, e : IF Contains(r, e) THEN r ELSE Append(r, e), <<>>, s)

-----------------------------------------------------------------------------
\* What the context is made of: the entities in the order of types and names, the matches
\* in the order of kick-off, and what recent observations name; times are in hours.
ListTrackedEntities(rows) == Taken(Chosen(rows, LAMBDA e : e.active), 500)

ListMatches(rows, now) ==
    Taken(Chosen(rows, LAMBDA m : \/ m.status = "FINISHED" /\ m.at \in now - 720 .. now
                                  \/ m.status = "SCHEDULED" /\ m.at >= now), 100)

ListRecentlyDetected(rows, now) ==
    Unique(FlattenSeq(Mapped(Taken(Chosen(rows, LAMBDA o : o.seenAt >= now - 24), 200), LAMBDA o : o.entities)))

\* EntityContextResolver.resolve
Resolve(world, now) ==
    LET entities == ListTrackedEntities(world.entities)
        matches == ListMatches(world.matches, now)
        names(Test(_)) == Mapped(Chosen(entities, Test), LAMBDA e : e.name)
        recent == Chosen(matches, LAMBDA m : m.status = "FINISHED")
        upcoming == Chosen(matches, LAMBDA m : m.status = "SCHEDULED")
        managers == names(LAMBDA e : e.type = "MANAGER")
    IN  [manager |-> IF managers = <<>> THEN NoName ELSE managers[1],
         firstTeamPlayers |-> Unique(names(LAMBDA e : e.type = "PLAYER" /\ e.tier = "FIRST_TEAM")),
         injuredPlayers |-> Unique(names(LAMBDA e : e.type = "PLAYER" /\ e.injured)),
         recentOpponents |-> Unique(Mapped(recent, LAMBDA m : m.opponent)),
         nextOpponent |-> IF upcoming = <<>> THEN NoName ELSE upcoming[1].opponent,
         competitions |-> Unique(Mapped(recent \o upcoming, LAMBDA m : m.competition)),
         recentlyDetected |-> ListRecentlyDetected(world.observations, now),
         hotEntities |-> SortSeq(Chosen(entities, LAMBDA e : e.hotUntil > now),
                                 LAMBDA e, f : \/ e.hotUntil > f.hotUntil
                                               \/ e.hotUntil = f.hotUntil /\ PlaceOf[e.name] < PlaceOf[f.name])]

-----------------------------------------------------------------------------
\* A query's id is its profile or mode, its family and the slug of its text.
Query(scope, definition) ==
    [id |-> <<scope, definition.family, definition.words>>,
     family |-> definition.family, hours |-> definition.hours]

About(family, name, word, hours) == [family |-> family, words |-> <<SlugOf[name], word>>, hours |-> hours]

\* A player is searched for with injuries, transfers, contract and national team, any
\* other with the club, transfers and contract.
Variants(e) ==
    LET span == e.hotUntil - e.hotStarted
        hours == IF span > 0 THEN Min({6, Max({3, span})}) ELSE 3
        variant(family, word) == About(family, e.name, word, hours)
    IN  IF e.type = "PLAYER"
        THEN <<variant("INJURY", "injury"), variant("PLAYER", "club"), variant("TRANSFER", "transfer"),
               variant("ENTITY", "contract")>>
             \o IF e.nation = NoName THEN <<>> ELSE <<variant("ENTITY", "nation")>>
        ELSE <<variant("ENTITY", "club"), variant("TRANSFER", "transfer"), variant("ENTITY", "contract")>>

ProfileQueries(profile, context, maximum) ==
    LET hot == FlattenSeq(Mapped(Taken(context.hotEntities, 5), Variants))
        definitions ==
            IF profile = "PLAYER_SWEEP"
            THEN Mapped(Taken(context.firstTeamPlayers, 64),
                        LAMBDA name : About("PLAYER", name, "club", WindowHours.CURRENT))
            ELSE Taken(CoreFamilies \o hot, Max({Len(CoreFamilies), maximum}))
    IN  Mapped(definitions, LAMBDA definition : Query(profile, definition))

DynamicDefinitions(context) ==
    LET each(names, family, word, window) ==
            Mapped(Taken(names, 8), LAMBDA name : About(family, name, word, WindowHours[window]))
        one(name) == IF name = NoName THEN <<>> ELSE <<name>>
    IN  each(context.firstTeamPlayers, "PLAYER", "", "CURRENT")
          \o each(context.injuredPlayers, "INJURY", "injury", "HOT")
          \o each(context.recentOpponents, "OPPONENT", "", "CURRENT")
          \o each(context.competitions, "COMPETITION", "", "CURRENT")
          \o each(context.recentlyDetected, "ENTITY", "", "HOT")
          \o each(one(context.manager), "MANAGER", "", "CURRENT")
          \o each(one(context.nextOpponent), "NEXT_MATCH", "", "CURRENT")

\* What is asked is cut at the maximum before double ids are dropped.  The order of a
\* manual run's queries, by priority, is left out.
ExpandDiscoveryQueries(profile, mode, context, maximum) ==
    LET allowed(definition) == definition.family \in ModeFamilies[mode] \cup DynamicFamilies
        base == Chosen(BaseFamilies, LAMBDA definition : definition.family \in ModeFamilies[mode])
        definitions == Taken(Chosen(base \o DynamicDefinitions(context), allowed), maximum)
        windowed(definition) ==
            IF mode = "BREAKING" THEN [definition EXCEPT !.hours = WindowHours.BREAKING] ELSE definition
    IN  IF profile # "MANUAL" THEN ProfileQueries(profile, context, maximum)
        ELSE Unique(Mapped(definitions, LAMBDA definition : Query(mode, windowed(definition))))
==============================================================================
