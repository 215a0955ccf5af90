--------------------------- MODULE AirvpnServerList ---------------------------
(***************************************************************************)
(* The server picker (nm-airvpn-server-list.c): the two requests of the    *)
(* editor, the JSON they answer, and a combo box whose rows are tokens (a  *)
(* continent, a country code, a server name) and which has at most one     *)
(* active row.  The texts displayed beside the tokens are left out.        *)
(*                                                                         *)
(* A JSON object is a record of the members it has.  A string is a token,  *)
(* an array a sequence; a member of any other kind is None.                *)
(***************************************************************************)
EXTENDS Integers, Sequences, FiniteSets

CONSTANTS
    Tokens,   \* row identifiers
    Earth,    \* "earth", the row that is always there
    Fold,     \* ASCII lower case, as g_ascii_strcasecmp compares
    Collate,  \* the rank of a token in the order of g_utf8_collate
    None      \* NULL

ASSUME TokensAssumption ==
    /\ Earth \in Tokens
    /\ None \notin Tokens
    /\ Fold \in [Tokens -> Tokens]

(***************************************************************************)
(* http_get.  A reply says how the transfer ended and with which HTTP      *)
(* status; write_cb refuses a body of more than MAX_RESPONSE_SIZE, which   *)
(* ends the transfer.  The answer is a body, or None with an error.        *)
(***************************************************************************)
HttpGet(reply) ==
    IF reply.complete /\ ~reply.too_large /\ reply.status = 200 THEN reply.body ELSE None

\* A body that json_parser_load_from_data takes, with an object at its root.
HoldsObject(body) == body # None /\ body.json /\ body.root # None

MemberString(item, name) ==
    IF name \in DOMAIN item /\ item[name] \in Tokens THEN item[name] ELSE None

\* What json_object_get_array_member finds; a member that is no array is
\* as good as an empty one.
ArrayMember(root, name) ==
    IF name \in DOMAIN root /\ root[name] # None THEN root[name] ELSE <<>>

\* The strings called name, of the items that have all the wanted ones.
Named(items, name, wanted) ==
    LET all == {i \in DOMAIN items : \A w \in wanted : MemberString(items[i], w) # None}
        kept == [i \in DOMAIN items |-> IF i \in all THEN items[i][name] ELSE None]
    IN  SelectSeq(kept, LAMBDA token : token # None)

\* nm_airvpn_device_list_fetch: the names of the devices, or None.  An
\* empty name (which is no token) and a missing one are passed over.
DeviceNames(body) ==
    IF HoldsObject(body) /\ body.authorized
         /\ "devices" \in DOMAIN body.root /\ body.root.devices # None
    THEN Named(body.root.devices, "name", {"name"})
    ELSE None

\* g_ptr_array_sort of the lines of a section, which start with the token.
Sorted(tokens) ==
    LET Rank(i) == Cardinality({j \in DOMAIN tokens :
                      \/ Collate[tokens[j]] < Collate[tokens[i]]
                      \/ Collate[tokens[j]] = Collate[tokens[i]] /\ j < i})
    IN  [n \in DOMAIN tokens |-> tokens[CHOOSE i \in DOMAIN tokens : Rank(i) = n - 1]]

\* The tokens of the three sections of a status answer, one after the other.
StatusTokens(body) ==
    LET Section(name) == ArrayMember(body.root, name)
        continents == Named(Section("continents"), "public_name", {"public_name"})
    IN  [i \in DOMAIN continents |-> Fold[continents[i]]]
          \o Sorted(Named(Section("countries"), "country_code", {"country_name", "country_code"}))
          \o Sorted(Named(Section("servers"), "public_name", {"public_name"}))

(***************************************************************************)
(* The combo box.                                                          *)
(***************************************************************************)
Combo == [rows : Seq(Tokens), active : Tokens \cup {None}]

\* combo_add activates every row that matches, so the last match stays.
Matches(rows, token) == {i \in DOMAIN rows : Fold[rows[i]] = Fold[token]}

LastOf(S) == CHOOSE i \in S : \A j \in S : j <= i

\* Mutated form: a token the new list does not have is not added back.
FillComboWithoutKeeping(list, select) ==
    LET rows == <<Earth>> \o list
        found == IF select = None THEN {} ELSE Matches(rows, select)
    IN  [rows |-> rows, active |-> IF found = {} THEN Earth ELSE rows[LastOf(found)]]

(***************************************************************************)
(* nm_airvpn_server_list_fill_combo for a list that parses: empty the      *)
(* combo, add earth and the list, select the row of the token, adding a    *)
(* row for a token the list does not have; with no token, earth.           *)
(***************************************************************************)
FillCombo(list, select) ==
    LET rows == <<Earth>> \o list
        found == IF select = None THEN {} ELSE Matches(rows, select)
    IN  CASE found # {}                    -> [rows |-> rows, active |-> rows[LastOf(found)]]
          [] found = {} /\ select # None   -> [rows |-> Append(rows, select), active |-> select]
          [] select = None                 -> [rows |-> rows, active |-> Earth]
==============================================================================
