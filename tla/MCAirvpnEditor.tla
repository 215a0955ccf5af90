---------------------------- MODULE MCAirvpnEditor ----------------------------
EXTENDS AirvpnEditorHost

\* Earth, and two spellings of a country (which is a continent here, too).
MCTokens == {"earth", "ch", "CH"}

MCFold == [t \in MCTokens |-> IF t = "CH" THEN "ch" ELSE t]

MCCollate == [t \in MCTokens |-> CASE t = "ch" -> 1 [] t = "CH" -> 2 [] t = "earth" -> 3]

Reply(body) == [complete |-> TRUE, too_large |-> FALSE, status |-> 200, body |-> body]

Body(root) == [json |-> TRUE, authorized |-> TRUE, root |-> root]

Continent(name) == [public_name |-> name]
Country(code)   == [country_code |-> code, country_name |-> code]
Server(name)    == [public_name |-> name, country_name |-> None]

\* Answers without sections, with one that is no array, with items that
\* lack a member, and with two spellings of one country in either order.
MCRoots == {
    << >>,
    [continents |-> None, servers |-> <<Server("CH"), Server("ch")>>],
    [continents |-> <<Continent("CH")>>,
     countries  |-> <<[country_code |-> "ch"], Country("CH")>>],
    [servers    |-> <<Server(None), Server("ch"), [country_name |-> "CH"]>>],
    [devices    |-> << <<>>, [name |-> "ch"], [name |-> None] >>]}

MCReplies ==
    {Reply(Body(root)) : root \in MCRoots}
        \cup {Reply([Body([error |-> "ch"]) EXCEPT !.authorized = FALSE]),
              Reply(Body(None)),
              Reply([Body(None) EXCEPT !.json = FALSE]),
              [Reply(Body(<< >>)) EXCEPT !.status = 503],
              [Reply(Body(<< >>)) EXCEPT !.too_large = TRUE],
              [Reply(Body(<< >>)) EXCEPT !.complete = FALSE]}
==============================================================================
