------------------------------- MODULE MCWindows -------------------------------
(* The data for Windows: the bodies of all the functions with the least ledger of *)
(* them, and small files, export tables and buffers.                              *)
EXTENDS Windows, TLC

Os == INSTANCE OsApiCalls
Tools == INSTANCE ToolCalls
AllCode == Os!OsApiCode @@ Os!LinuxCode @@ Tools!ToolCode

-------------------------------------------------------------------------------
\* The least ledger of some code: every function is called with nothing open, and each
\* line is carried on to the pages that Accounts!Kept asks for until nothing is added.  (The code
\* is a parameter so that TLC evaluates it once.)
Callees(functions, f) == {functions[f].body[n].runs : n \in DOMAIN functions[f].body} \ {"nothing"}
RECURSIVE Concerns(_, _)
Concerns(functions, f) ==
    functions[f].tail \cup functions[f].abandon
      \cup UNION {LET s == functions[f].body[n]
                  IN  s.gets \cup s.closes \cup s.clears \cup s.undo \cup s.junk :
                  n \in DOMAIN functions[f].body}
      \cup UNION {Concerns(functions, g) : g \in Callees(functions, f)}
EmptyLedger(functions) ==
    LET pages == UNION {({f} \X (0..(Len(functions[f].body) + 1))) \X Concerns(functions, f) :
                        f \in DOMAIN functions}
    IN  [page \in {<<p[1][1], p[1][2], p[2]>> : p \in pages} |-> {}]

\* The lines behind step n of f, when it, or what it runs, succeeds (ok) or fails.
Behind(functions, ledger, f, n, v, ok) ==
    LET step == functions[f].body[n]
        g == step.runs
        before == ledger[<<f, n, v>>]
        end == IF ok THEN Len(functions[g].body) + 1 ELSE 0
        closes == functions[g].tail \cup IF ok THEN {} ELSE functions[g].abandon
        calls == IF <<g, 1, v>> \in DOMAIN ledger THEN ledger[<<g, end, v>>]
                 ELSE {<<k, k>> : k \in Accounts!Marks}
        meet == {pair \in before \X calls : pair[1][2] = pair[2][1]}
    IN  IF g = "nothing"
          THEN {<<line[1], IF ok THEN Accounts!Succeeded(step, v, line[2])
                           ELSE Accounts!Failed(step, v, line[2])>> : line \in before}
          ELSE {<<pair[1][1], Accounts!Closed(closes, v, pair[2][2])>> : pair \in meet}

CarriedOn(functions, ledger, f, n, v) ==
    LET from(ok) == {m \in DOMAIN functions[f].body :
                        LET step == functions[f].body[m]
                        IN  \E j \in IF ok THEN step.next ELSE step.fails : Accounts!To(m, j) = n}
    IN  UNION {UNION {Behind(functions, ledger, f, m, v, ok) : m \in from(ok)} : ok \in BOOLEAN}

\* A function begins with nothing open, and with what there is at each call of it.
Begun(functions, ledger, callers, g, v) ==
    LET calls == UNION {{<<f, n, v>> : n \in {m \in DOMAIN functions[f].body :
                                                 functions[f].body[m].runs = g}} : f \in callers}
    IN  {<<Accounts!Clear, Accounts!Clear>>}
          \cup UNION {{<<line[2], line[2]>> : line \in ledger[page]} : page \in calls}

Longer(functions, ledger) ==
    LET callers == [g \in DOMAIN functions |-> {f \in DOMAIN functions : g \in Callees(functions, f)}]
    IN  [page \in DOMAIN ledger |->
            ledger[page] \cup CarriedOn(functions, ledger, page[1], page[2], page[3])
              \cup IF page[2] = 1
                     THEN Begun(functions, ledger, callers[page[1]], page[1], page[3]) ELSE {}]
RECURSIVE Completed(_, _)
Completed(functions, ledger) ==
    LET longer == Longer(functions, ledger)
    IN  IF longer = ledger THEN ledger ELSE Completed(functions, longer)
LeastLedger == LET functions == AllCode IN Completed(functions, EmptyLedger(functions))

-------------------------------------------------------------------------------
\* Places and sizes on either side of each bound IsPE tests, and of half and all of Ulong.
SectionLists == {<<>>, <<[va |-> 1, vsize |-> 2, raw |-> 5], [va |-> 4, vsize |-> 1, raw |-> 9],
                         [va |-> 6, vsize |-> 4094, raw |-> 9]>>}
ImportLists ==
    {<<>>} \cup {<<[name |-> 2, dll |-> "hal.dll", characteristics |-> p[1]],
                   [name |-> p[2], dll |-> "ntoskrnl.exe", characteristics |-> 2]>> :
                      p \in {<<0, 4>>, <<1, 4>>, <<1, 5>>}}
Sizes == {312, 313, 367, 368, 548, 549, 2600}
Lfanews == {64, 300, 2200, 3848}
SmallFiles ==
    [size : Sizes, lfanew : Lfanews, magic : {"PE32", "PE64", "ROM", "none"}, mz : BOOLEAN,
     nt : BOOLEAN, sections : SectionLists, optional : {224}, dll : BOOLEAN, subsystem : {"gui"},
     table : {0}, imports : {<<>>}]
      \cup
    [size : Sizes, lfanew : Lfanews, magic : {"PE32", "PE64", "none"}, mz : {TRUE},
     nt : {TRUE}, sections : SectionLists, optional : {224, 300}, dll : {FALSE},
     subsystem : {"native"}, table : {0, 4}, imports : ImportLists]

\* The names a, aa, ab and b, in the order in which a linker sorts them.
InOrder == <<<<97>>, <<97, 97>>, <<97, 98>>, <<98>>>>
Names == {InOrder[n] : n \in 1..4}
Pairs(n) == {p \in (1..n) \X (1..n) : p[1] < p[2]}
SortedTables == {<<>>} \cup {<<InOrder[m]>> : m \in 1..4}
    \cup {<<InOrder[p[1]], InOrder[p[2]]>> : p \in Pairs(4)}
    \cup {<<InOrder[p[1]], InOrder[p[2]], InOrder[4]>> : p \in Pairs(3)}
Tables == [names : SortedTables, functions : {<<10>>, <<10, 11>>},
           ordinals : {<<0, 1, 2>>, <<1, 0, 2>>, <<2, 0, 1>>}]

\* Buffers that end with a NUL, as GetOpenFileName leaves them.
SmallBuffers == {b \in UNION {[1..n -> 0..1] : n \in 1..9} : b[1] = 1 /\ b[Len(b)] = 0}
===============================================================================
