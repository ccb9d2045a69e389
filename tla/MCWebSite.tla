------------------------------ MODULE MCWebSite -----------------------------
(***************************************************************************)
(* Three small sites for model checking WebSite: one without rules, one    *)
(* with rules for members, and one whose handlers fail in every way.       *)
(***************************************************************************)
EXTENDS WebSite, TLC

MCType == {"page", "person"}

Text == [kind |-> "text", to |-> "page", required |-> FALSE,
         immutable |-> FALSE, default |-> Nil]

FieldDefs ==
    [page |-> [state |-> [Text EXCEPT !.default = "draft"],
               body |-> [Text EXCEPT !.required = TRUE],
               author |-> [Text EXCEPT !.kind = "ref", !.to = "person"]],
     person |-> [phone |-> [Text EXCEPT !.immutable = TRUE],
                boss |-> [Text EXCEPT !.kind = "ref", !.to = "person"]]]

\* What visitors send: allowed and not, valid and not.
Inputs ==
    [page |-> [create |-> {[body |-> "new"], [body |-> "new", state |-> "published"],
                           [state |-> "published"]},
               patch |-> {[body |-> "new"], [body |-> Nil], [state |-> "published"], << >>}],
     person |-> [create |-> {[phone |-> "old"]}, patch |-> {[phone |-> "new"]}]]

\* What editors send.
EditorInputs ==
    [page |-> [create |-> {[body |-> "old", author |-> 2]},
               patch |-> {[author |-> 2, state |-> "published"]}],
     person |-> [create |-> {[phone |-> "new", boss |-> 1]}, patch |-> {}]]

\* Two persons, whom nobody can delete, and a page of one of them.
Tables ==
    {<<[type |-> "person", revision |-> 1, fields |-> [phone |-> "old", boss |-> 2]],
       [type |-> "person", revision |-> 1, fields |-> [phone |-> "old", boss |-> 1]],
       [type |-> "page", revision |-> 1,
        fields |-> [state |-> "draft", body |-> "old", author |-> 1]]>>}

-----------------------------------------------------------------------------
Every(x) == [k \in ActorKind |-> x]

Reads == [priority |-> 0, narrow |-> Every({}), hide |-> Every({}), end |-> Every("ok")]
Writes == [priority |-> 0, own |-> {}, allow |-> Every({}),
           set |-> Every(<< >>), end |-> Every("ok")]

Refuse == [Every("ok") EXCEPT !["anonymous"] = "refuse"]

NoRules == [e \in Event |-> << >>]

\* Members read what is published or theirs, and write their own pages.
PageReading ==
    [Reads EXCEPT !.narrow = [anonymous |-> {"published"}, node |-> {"published", "mine"},
                              api_key |-> {"anything"}, admin |-> {"anything"}],
                  !.hide = [Every({}) EXCEPT !["anonymous"] = {"body"}]]
PersonReading ==
    [Reads EXCEPT !.narrow = Every({"anything"}), !.end = Refuse,
                  !.hide = [Every({}) EXCEPT !["node"] = {"phone"}]]
PageWriting ==
    [Writes EXCEPT !.end = Refuse, !.own = {"node"},
                   !.allow = [Every({"body"}) EXCEPT !["api_key"] = {"body", "state"}]]
PageCreating ==
    [Writes EXCEPT !.end = Refuse,
                   !.allow = [Every({"body"}) EXCEPT !["api_key"] = {"body", "state"}],
                   !.set = [Every(<< >>) EXCEPT !["node"] = [author |-> "self",
                                                             state |-> "draft"]]]
MemberSite ==
    [NoRules EXCEPT ![<<"list", "page">>] = <<PageReading>>,
                    ![<<"view", "page">>] = <<PageReading>>,
                    ![<<"mine", "page">>] = <<[Reads EXCEPT !.narrow = Every({"mine"})]>>,
                    ![<<"view", "person">>] = <<PersonReading>>,
                    ![<<"create", "page">>] = <<PageCreating>>,
                    ![<<"update", "page">>] = <<PageWriting>>,
                    ![<<"delete", "page">>] = <<PageWriting>>]

\* Handlers that narrow in turn, that fail before or after another one, that
\* panic, that leave the filter alone or hide what is not there.
Nodes == [Every({}) EXCEPT !["node"] = {"mine"}]
FailingSite ==
    [NoRules EXCEPT
       ![<<"list", "page">>] = <<PageReading, [Reads EXCEPT !.priority = -1, !.narrow = Nodes]>>,
       ![<<"view", "page">>] = <<Reads, [PageReading EXCEPT !.end =
                                           [Every("ok") EXCEPT !["api_key"] = "panic"]]>>,
       ![<<"list", "person">>] = <<Reads>>,
       ![<<"view", "person">>] = <<[PersonReading EXCEPT !.hide = Every({"body"})]>>,
       ![<<"create", "page">>] = <<PageCreating, [Writes EXCEPT !.set = Every([state |-> "published"])]>>,
       ![<<"update", "page">>] = <<PageWriting, [Writes EXCEPT !.allow = Every({"state"}),
                                                  !.set = Every([state |-> "draft"])]>>,
       ![<<"delete", "page">>] = <<PageWriting, [Writes EXCEPT !.end =
                                           [Every("ok") EXCEPT !["api_key"] = "panic"]]>>]

MCLoggedIn == {Nobody, 1}
MCSite == {NoRules, MemberSite, FailingSite}
\* Two browsers, or a visitor next to an editor.
Crews == {Browser} \cup {{v, b} : v \in Visitor, b \in {CHOOSE x \in Browser : TRUE}}
OtherActors == {[kind |-> "api_key", id |-> Nobody], [kind |-> "node", id |-> 2]}

\* TLC keeps the value of a definition, but not that of one that the .cfg
\* substitutes for a constant.
MCFieldDef == FieldDefs
MCInput == Inputs
MCEditorInput == EditorInputs
MCStartNodes == Tables
MCOtherActor == OtherActors
MCCrew == Crews
=============================================================================
