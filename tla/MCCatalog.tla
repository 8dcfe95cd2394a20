----------------------------- MODULE MCCatalog ------------------------------
(***************************************************************************)
(* A small instance of Catalog: a session of tmh's with up to four panes in*)
(* two tabs, and one of the YAML file's with one.                          *)
(***************************************************************************)
EXTENDS Integers, Sequences, TLC

MCPanes == "tmh-a" :> 4 @@ "b" :> 1
MCConfigured == "b" :> << "y" >>
MCTabs == << "x", "y" >>
MCPrefix == {"tmh-a"}

(* Later in a daemon's life: two tabs, an agent, a pinned client, recorded *)
(* history, a snapshot with its plan; the configured session is not there. *)
Open ==
    << "tmh-a", 1 >> :> [tab |-> "x", state |-> "live", agent |-> TRUE]
      @@ << "tmh-a", 2 >> :> [tab |-> "y", state |-> "live", agent |-> FALSE]

Tab(name) == [name |-> name, surfaces |-> << << name, "primary" >> >>]

Busy ==
    [up |-> TRUE,
     workspaces |->
        "tmh-a" :> [desired |-> << Tab("x"), Tab("y") >>,
                    observed |-> << Tab("x"), Tab("y") >>, status |-> "ok",
                    drift |-> FALSE, terminals |-> DOMAIN Open,
                    agents |-> {<< "tmh-a", 1 >>}]
          @@ "b" :> [desired |-> << Tab("y") >>, observed |-> << >>,
                     status |-> "drift", drift |-> TRUE,
                     terminals |-> {}, agents |-> {}],
     terminals |->
        [p \in DOMAIN Open |->
            [state |-> "live", surface |-> << Open[p].tab, "primary" >>]],
     agents |-> << "tmh-a", 1 >> :> [state |-> "running", claimed |-> FALSE,
                                     terminal |-> << "tmh-a", 1 >>],
     views |-> "tmh-a" :> [kind |-> "pinned", pinned |-> TRUE],
     history |->
        {[scope |-> [kind |-> "terminal", of |-> << "tmh-a", 2 >>], seq |-> 1,
          at |-> 1, old |-> FALSE],
         [scope |-> [kind |-> "agent", of |-> << "tmh-a", 1 >>], seq |-> 1,
          at |-> 2, old |-> FALSE]},
     snapshots |-> {[id |-> 1, workspace |-> "tmh-a", state |-> << Tab("x"), Tab("y") >>]},
     plans |-> {[id |-> 1, snapshot |-> 1, workspace |-> "tmh-a", status |-> "pending"]},
     keep |-> FALSE, nil |-> {}]

(* As it was seen last, or with one of its panes gone since                *)
MCStarts ==
    {[rt |-> [panes |-> [p \in left |-> Open[p]], clients |-> {"tmh-a"},
              born |-> DOMAIN Open],
      cat |-> Busy] : left \in {DOMAIN Open, {<< "tmh-a", 1 >>}}}
=============================================================================
