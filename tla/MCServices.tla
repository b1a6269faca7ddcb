----------------------------- MODULE MCServices -----------------------------
(***************************************************************************)
(* Small instances of the services: who acts, and in which environments.   *)
(***************************************************************************)
EXTENDS Services, TLC

(***************************************************************************)
(* ussd-service: two phones and their amounts, some inputs being both, by  *)
(* one handler at a time, and with one phone by handlers that overlap or   *)
(* die: every dialogue but the second is long enough to send a transfer.   *)
(***************************************************************************)
MCUssdSettings ==
    { [faults |-> {}, inputs |-> {"1", "2", "66000001", "66000002"}, presses |-> 7],
      [faults |-> {}, inputs |-> {"1", "2", "3", "4", "123456"}, presses |-> 5],
      [faults |-> {"overlap"}, inputs |-> {"1", "2", "66000001"}, presses |-> 6],
      [faults |-> {"late choice", "dies", "day passes"}, inputs |-> {"", "1", "2", "66000001"},
       presses |-> 6] }

(***************************************************************************)
(* aml-service: T1 hits a list exactly and is reversed later; T2 scores    *)
(* enough, or not, by its amount and a fuzzy hit that hides an exact one.  *)
(***************************************************************************)
Exact == [tx |-> "T1", status |-> "COMPLETED", sender |-> "exact", recipient |-> "none",
          high |-> FALSE, risky |-> FALSE]
Reversed == [Exact EXCEPT !.status = "REVERSED"]
Fuzzy == [tx |-> "T2", status |-> "COMPLETED", sender |-> "fuzzy", recipient |-> "exact",
          high |-> TRUE, risky |-> FALSE]
Clean == [tx |-> "T2", status |-> "FAILED", sender |-> "none", recipient |-> "none",
          high |-> TRUE, risky |-> TRUE]

MCFinancialEvents == {Exact, Reversed, Fuzzy, Clean}
MCWalletsOf == ("T1" :> {"w1", "w2"}) @@ ("T2" :> {"w3"})

MCAmlSettings ==
    { [faults |-> {}, events |-> {Exact, Clean}, acts |-> 2],
      [faults |-> {"overlap", "dies", "errors"}, events |-> {Exact, Reversed}, acts |-> 2],
      [faults |-> {}, events |-> {Exact, Fuzzy}, acts |-> 0] }

(***************************************************************************)
(* kyc-service: two clerks.                                                *)
(***************************************************************************)
MCKycSettings ==
    { [faults |-> {}, requests |-> 5],
      [faults |-> {"overlap"}, requests |-> 4],
      [faults |-> {"dies", "broker drops"}, requests |-> 4] }

(***************************************************************************)
(* notification-service: a message, one that its schema refuses, a test.   *)
(***************************************************************************)
AllFields == {"userId", "type", "channel", "title", "body"}
Told == [id |-> "m1", test |-> FALSE, type |-> "TRANSACTION", has |-> AllFields]
Invalid == [id |-> "m2", test |-> FALSE, type |-> "kyc.rejected", has |-> {"userId", "type"}]
Test == [id |-> "m3", test |-> TRUE, type |-> "SYSTEM", has |-> AllFields]

MCMessages == {Told, Invalid, Test}

MCNotificationSettings ==
    { [faults |-> {"fails"}, messages |-> {Told, Test}],
      [faults |-> {"fails", "slow"}, messages |-> {Told, Invalid}],
      [faults |-> {"fails", "slow", "overlap"}, messages |-> {Told}],
      [faults |-> {"fails", "errors", "dies"}, messages |-> {Told}] }

(***************************************************************************)
(* api-core's authentication of one phone by two handlers.  An environment *)
(* says how often the phone registers, shows the right and the wrong code, *)
(* the right and the wrong password, refreshes, and sets its MPIN.         *)
(***************************************************************************)
Asked(op, right) == [op |-> op, phone |-> "p", right |-> right]
Times(register, code, wrongCode, login, wrongLogin, refresh, mpin) ==
    (Asked("register", TRUE) :> register) @@ (Asked("verify", TRUE) :> code)
      @@ (Asked("verify", FALSE) :> wrongCode) @@ (Asked("login", TRUE) :> login)
      @@ (Asked("login", FALSE) :> wrongLogin) @@ (Asked("refresh", TRUE) :> refresh)
      @@ (Asked("mpin", TRUE) :> mpin) @@ (Asked("mpin", FALSE) :> mpin)

MCAuthRequests == DOMAIN Times(0, 0, 0, 0, 0, 0, 0)

MCAuthSettings ==
    { [faults |-> {}, sends |-> Times(1, 1, 1, 1, 3, 1, 0)],
      [faults |-> {"overlap"}, sends |-> Times(2, 1, 1, 0, 0, 0, 0)],
      [faults |-> {"overlap", "dies", "code late"}, sends |-> Times(1, 1, 0, 1, 0, 0, 0)],
      [faults |-> {"overlap"}, sends |-> Times(0, 0, 0, 0, 8, 0, 0)],
      [faults |-> {"overlap", "slow"}, sends |-> Times(0, 0, 0, 0, 4, 0, 0)],
      [faults |-> {"overlap"}, sends |-> Times(1, 1, 0, 1, 2, 0, 0)],
      [faults |-> {}, sends |-> Times(1, 1, 0, 1, 0, 0, 1)] }

(***************************************************************************)
(* The legacy aggregator's payments and their checkout pages.              *)
(***************************************************************************)
MCPaymentSettings ==
    { [faults |-> {}, orders |-> {<<"k1", 1>>, <<"k1", 2>>}, pages |-> {"c1", "c2"}],
      [faults |-> {}, orders |-> {<<"no", 1>>}, pages |-> {"c1", "c2", "c3"}],
      [faults |-> {"merchant", "lost"}, orders |-> {<<"no", 1>>}, pages |-> {"c1"}],
      [faults |-> {"dies", "lost"}, orders |-> {<<"k1", 1>>, <<"k2", 1>>}, pages |-> {"c1"}] }

(***************************************************************************)
(* Its webhooks: h1 wants both events, h2 the first.                       *)
(***************************************************************************)
MCWants == ("h1" :> {"e1", "e2"}) @@ ("h2" :> {"e1"})

MCHookSettings ==
    { [faults |-> {"fails"}, events |-> {"e1"}, rows |-> 2, maxHooks |-> 2],
      [faults |-> {"fails", "slow"}, events |-> {"e2"}, rows |-> 1, maxHooks |-> 1],
      [faults |-> {"edits"}, events |-> {"e1"}, rows |-> 2, maxHooks |-> 2],
      [faults |-> {"overlap"}, events |-> {"e1", "e2"}, rows |-> 3, maxHooks |-> 1],
      [faults |-> {"fails", "replay"}, events |-> {"e2"}, rows |-> 2, maxHooks |-> 1],
      [faults |-> {"fails", "dies"}, events |-> {"e2"}, rows |-> 1, maxHooks |-> 2] }

(***************************************************************************)
(* The dashboard's session and keys: one merchant until the JWT expires,   *)
(* two at one browser, and one who does not wait for answers.              *)
(***************************************************************************)
Does(op, who, typed, key) ==
    [op |-> op, who |-> who, typed |-> typed, next |-> 2, key |-> key]

MCConsoleSettings ==
    { [faults |-> {"expires"}, clicks |-> 4,
       deeds |-> {Does("register", "m1", 1, "test"), Does("login", "m1", 1, "test"),
                  Does("login", "m1", 2, "test"), Does("password", "m1", 1, "test"),
                  Does("rotate", "m1", 1, "test"), Does("rotate", "m1", 1, "live"),
                  Does("use", "m1", 1, "test")}],
      [faults |-> {}, clicks |-> 5,
       deeds |-> {Does("register", "m1", 1, "test"), Does("register", "m2", 1, "test"),
                  Does("login", "m1", 1, "test"), Does("rotate", "m1", 1, "test"),
                  Does("rotate", "m1", 1, "webhook"), Does("use", "m1", 1, "test")}],
      [faults |-> {"overlap", "lost"}, clicks |-> 3,
       deeds |-> {Does("register", "m1", 1, "test"), Does("rotate", "m1", 1, "test"),
                  Does("profile", "m1", 1, "test")}] }

(***************************************************************************)
(* business-service's bulk payments: two users, and a file whose second    *)
(* line is wrong; files that are too long, all wrong, or nearly nothing.   *)
(***************************************************************************)
Good == [to |-> TRUE, phone |-> TRUE, number |-> TRUE, tenths |-> 50000, reference |-> TRUE,
         more |-> FALSE]
Small == [Good EXCEPT !.tenths = 4]
Bad == [Good EXCEPT !.number = FALSE, !.reference = FALSE]

MCBulkSettings ==
    { [faults |-> {}, files |-> {<<Good, Bad>>}, calls |-> 7],
      [faults |-> {"dies"}, files |-> {<<Small>>, <<Bad>>, <<Good, Good, Good>>}, calls |-> 5],
      [faults |-> {"slow"}, files |-> {<<Good, Bad>>}, calls |-> 1] }

(***************************************************************************)
(* The aggregator's database: new, or of version 0 with two merchants, of  *)
(* which none or one has payments.                                         *)
(***************************************************************************)
Database(faults, v0, ids, referred) ==
    [faults |-> faults, v0 |-> v0, rows |-> ids, owners |-> referred]

MCSchemaSettings ==
    { Database({}, FALSE, {}, {}), Database({}, TRUE, {"m1", "m2"}, {}),
      Database({}, TRUE, {"m1", "m2"}, {"m1"}),
      Database({"dies"}, TRUE, {"m1", "m2"}, {"m2"}) }

(***************************************************************************)
(* aml-service's screening: every name of four symbols or less, and two    *)
(* longer ones, against an entity and another one with two aliases, one of *)
(* which has no letters.                                                   *)
(***************************************************************************)
MCFold == ("a" :> "a") @@ ("b" :> "b") @@ ("A" :> "a") @@ ("B" :> "b")
MCLists == << << <<"A", "B">> >>,
              << <<"b", "a", "-", "b">>, <<"a", "a", "b", "a", "b">>, <<"-">> >> >>

MCScreeningSettings ==
    { [faults |-> {}, names |-> UNION {[1..n -> {"a", "B", "-"}] : n \in 0..4}],
      [faults |-> {}, names |-> {<<"a", " ", "a", " ", "a">>, <<"a", "b", "a", "b", "a">>}] }

(***************************************************************************)
(* Readers of the ledger's books: sound ones, and ones in which balances   *)
(* were changed by other means, within the tolerance or past it.           *)
(***************************************************************************)
Off(a, b, c) == ("w1" :> a) @@ ("w2" :> b) @@ ("w3" :> c)
Books(faults, off, transfers, readers, reports) ==
    [faults |-> faults, entries |-> {"w1", "w2"}, off |-> off, transfers |-> transfers,
     readers |-> readers, reports |-> reports]

MCAuditSettings ==
    { Books({}, Off(0, 0, 0), 2, {"checkpoint"}, 0),
      Books({}, Off(0, 2, 1), 2, {"verification"}, 0),
      Books({}, Off(1, 0, 3), 1, {"verification", "checkpoint"}, 0),
      Books({"overlap"}, Off(1, 0, 0), 2, {}, 3),
      Books({}, Off(5, -5, 0), 1, {"verification"}, 1) }

(***************************************************************************)
(* The dashboard's pages of payments: a form submitted more than once, a   *)
(* payment watched while it moves, calls that are lost, no secret key.     *)
(***************************************************************************)
Browsing(faults, losses, n, ends, does) ==
    [faults |-> faults, lost |-> losses, clicks |-> n, found |-> 1, ends |-> ends, deeds |-> does]

MCPagesSettings ==
    { Browsing({}, 0, 3, {"succeeded"}, {"overview", "list", "form", "create"}),
      Browsing({}, 0, 3, {"succeeded"}, {"overview", "list", "filter", "open"}),
      Browsing({}, 1, 3, {"processing", "failed"}, {"list", "open", "simulate"}),
      Browsing({"no key"}, 0, 2, {}, {"list", "filter", "form"}) }

(***************************************************************************)
(* Its page of webhooks: operations on two endpoints that overlap, new     *)
(* ones up to the limit, and everything that can go wrong on the way.      *)
(***************************************************************************)
MCHookPageSettings ==
    { [faults |-> {}, found |-> 2, clicks |-> 4, deeds |-> {"mount", "toggle", "delete", "replay"}],
      [faults |-> {}, found |-> 0, clicks |-> 6, deeds |-> {"mount", "form", "create"}],
      [faults |-> {"lost", "reordered", "other tab"}, found |-> 1, clicks |-> 3,
       deeds |-> {"mount", "toggle", "test", "attempts"}] }

(***************************************************************************)
(* The web portals, in one browser: members with other roles one after the *)
(* other, requests that overlap, cookies that reach their age.             *)
(***************************************************************************)
MCRolesOf == ("m1" :> {"SUPER_ADMIN"}) @@ ("m2" :> {"SUPPORT_L1"})

MCWebSettings ==
    { [faults |-> {}, portal |-> "admin", clicks |-> 4, sections |-> {"overview", "kyc", "users"}],
      [faults |-> {"overlap"}, portal |-> "business", clicks |-> 4, sections |-> {"bulk"}],
      [faults |-> {"expires"}, portal |-> "business", clicks |-> 3, sections |-> {"overview"}] }

(***************************************************************************)
(* Signatures of webhooks: tries take no time, or as long as the look-up   *)
(* and the POST may (40 s and 8 s); a stop is short, or past the window.   *)
(***************************************************************************)
MCSignatureSettings ==
    { [faults |-> {}, changes |-> 0, rows |-> 2],
      [faults |-> {"rotates", "stops"}, changes |-> 1, rows |-> 1] }
=============================================================================
