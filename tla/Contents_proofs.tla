--------------------------- MODULE Contents_proofs ---------------------------
(* Proofs about module Contents, for any connections, handles and loads, and *)
(* about module Registry, for any number of files open and any vector.       *)
EXTENDS Contents, Registry, FiniteSetTheorems, TLAPS

USE DEF Gens

\* Nothing is open, cached or under way at first.
LEMMA InitInv == Init => IInv
  BY ContentsAssumption, SMTT(30)
     DEF Init, IInv, TypeOK, LockExcludes, LoaderLocals, ValidRegistered, CacheOfOwnGen,
         InvalidIsOld, HandlerLocals, ReplyPending, Guarded, Exclusive, Stages, Strong, Replies, Kinds

\* No step leaves the types.  It takes the other parts of the invariant to know
\* that what a handler answers from is a generation.
LEMMA TypeStep == IInv /\ [Next]_vars => TypeOK'
<1> SUFFICES ASSUME IInv, [Next]_vars PROVE TypeOK'
  OBVIOUS
<1>a. TypeOK
  BY DEF IInv
<1> USE <1>a, ContentsAssumption DEF TypeOK, Guarded, Exclusive, Stages, Kinds
<1>0. CASE UNCHANGED vars
  BY <1>0 DEF vars
<1>1. ASSUME NEW c \in Conns, NEW h \in Handles, BeginCreate(c, h) PROVE TypeOK'
  BY <1>1 DEF BeginCreate, BeginCommand, Goto, loaderVars, stateVars
<1>2. ASSUME NEW c \in Conns, NEW h \in Handles, NEW op \in Commands, BeginCommand(c, op, h)
      PROVE  TypeOK'
  BY <1>2 DEF BeginCommand, Goto, loaderVars, stateVars, Commands
<1>3. ASSUME NEW c \in Conns, CreateStat(c) PROVE TypeOK'
  BY <1>3 DEF CreateStat, Answer, Goto, loaderVars, stateVars, Replies
<1>4. ASSUME NEW c \in Conns, NEW k \in Kinds, CreateInsert(c, k) PROVE TypeOK'
  BY <1>4
     DEF IInv, HandlerLocals, CreateInsert, Register, Answer, Goto, loaderVars,
         Replies
<1>5. ASSUME NEW c \in Conns, Read(c) PROVE TypeOK'
  BY <1>5 DEF Read, Refuse, Answer, Goto, loaderVars, stateVars, Replies
<1>6. ASSUME NEW c \in Conns, ReadAt(c) PROVE TypeOK'
  BY <1>6
     DEF IInv, HandlerLocals, ReadAt, Answer, Goto, loaderVars, stateVars,
         Replies
<1>7. ASSUME NEW c \in Conns, QueryDirectory(c) PROVE TypeOK'
  BY <1>7 DEF QueryDirectory, Refuse, Answer, Goto, loaderVars, stateVars, Replies
<1>8. ASSUME NEW c \in Conns, ListBacking(c) PROVE TypeOK'
  BY <1>8 DEF ListBacking, Answer, Goto, loaderVars, stateVars, Replies
<1>9. ASSUME NEW c \in Conns, FillListing(c) PROVE TypeOK'
  BY <1>9 DEF IInv, HandlerLocals, FillListing, Answer, Goto, loaderVars, Replies
<1>10. ASSUME NEW c \in Conns, QueryInfo(c) PROVE TypeOK'
  <2>1. Usable(c, cur[c]) => cur[c] \in Handles /\ born[cur[c]] \in Gens
    BY <1>10 DEF IInv, InvalidIsOld, HandlerLocals, Usable, InTable, QueryInfo
  <2>2. PICK r \in Replies : Answer(c, r)
    BY <1>10, <2>1 DEF QueryInfo, Refuse, Replies
  <2> QED
    BY <1>10, <2>2 DEF QueryInfo, Refuse, Answer, Goto, loaderVars, stateVars
<1>11. ASSUME NEW c \in Conns, EndCommand(c) PROVE TypeOK'
  BY <1>11 DEF EndCommand, Goto, loaderVars, stateVars, Replies
<1>12. ASSUME NEW c \in Conns, NEW h \in Handles, Close(c, h) PROVE TypeOK'
  BY <1>12
     DEF IInv, InvalidIsOld, InTable, Close, Release, Goto, loaderVars, Replies
<1>13. ASSUME NEW c \in Conns, NEW S \in SUBSET Handles, CloseTree(c, S)
       PROVE  TypeOK'
  BY <1>13 DEF CloseTree, Release, Goto, loaderVars, Replies
<1>14. ASSUME NEW c \in Conns, CloseAll(c) PROVE TypeOK'
  BY <1>14 DEF CloseAll, Release, Goto, loaderVars, Replies
<1>15. ASSUME NEW c \in Conns, NEW h \in Handles, DropArc(c, h) PROVE TypeOK'
  BY <1>15 DEF DropArc, loaderVars, connVars
<1>16. ASSUME NEW c \in Conns, NEW h \in Handles, DropState(c, h) PROVE TypeOK'
  BY <1>16 DEF DropState, loaderVars, connVars
<1>17. ASSUME NEW c \in Conns, EndRelease(c) PROVE TypeOK'
  BY <1>17 DEF EndRelease, Goto, loaderVars, stateVars, Replies
<1>18. CASE Load
  BY <1>18 DEF Load, connVars, stateVars
<1>19. CASE LoadQueue
  BY <1>19 DEF LoadQueue, connVars, stateVars
<1>20. CASE LoadLock
  BY <1>20 DEF LoadLock, connVars, stateVars
<1>21. CASE LoadTake
  BY <1>21 DEF LoadTake, connVars, stateVars
<1>22. ASSUME NEW h \in Handles, LoadUpgrade(h) PROVE TypeOK'
  BY <1>22 DEF LoadUpgrade, connVars, stateVars
<1>23. CASE LoadInvalidate
  BY <1>23 DEF LoadInvalidate, connVars
<1>24. CASE LoadDropArc
  BY <1>24 DEF LoadDropArc, connVars
<1>25. CASE LoadSwap
  BY <1>25 DEF IInv, LoaderLocals, LoadSwap, connVars, stateVars
<1>26. CASE LoadReturn
  BY <1>26 DEF LoadReturn, connVars, stateVars
<1> QED
  BY <1>0, <1>1, <1>2, <1>3, <1>4, <1>5, <1>6, <1>7, <1>8, <1>9, <1>10, <1>11,
     <1>12, <1>13, <1>14, <1>15, <1>16, <1>17, <1>18, <1>19, <1>20, <1>21, <1>22, <1>23, <1>24, <1>25, <1>26
     DEF Next, ConnRequest, ConnStep, LoadStep

\* The absence of a reply is no reply.
LEMMA Distinct == /\ NoReply # Closed /\ NoReply # Done /\ NoReply # Failed
                  /\ \A g : NoReply # Served(g) /\ NoReply # Attributes(g)
  BY DEF NoReply, Closed, Done, Failed, Served, Attributes

\* Every step keeps the invariant: a step for each action, and under it one for
\* each conjunct the action can disturb.
LEMMA InvStep == IInv /\ [Next]_vars => IInv'
<1> SUFFICES ASSUME IInv, [Next]_vars PROVE IInv'
  OBVIOUS
<1>t. TypeOK /\ TypeOK'
  BY TypeStep DEF IInv
<1> USE <1>t, ContentsAssumption
<1>0. CASE UNCHANGED vars
  BY <1>0
     DEF vars, IInv, LockExcludes, LoaderLocals, ValidRegistered, CacheOfOwnGen,
         InvalidIsOld, HandlerLocals, ReplyPending, Strong, Usable, InTable
<1>1. ASSUME NEW c \in Conns, NEW h \in Handles, BeginCreate(c, h) PROVE IInv'
  <2>1. LockExcludes'
    BY <1>1
       DEF IInv, LockExcludes, Guarded, Exclusive, ReadLockable, Readers,
           TypeOK, BeginCreate, BeginCommand, Goto, loaderVars, stateVars
  <2>2. LoaderLocals'
    BY <1>1
       DEF IInv, LoaderLocals, Strong, BeginCreate, BeginCommand, Goto,
           loaderVars, stateVars
  <2>3. ValidRegistered'
    BY <1>1
       DEF IInv, ValidRegistered, Strong, BeginCreate, BeginCommand, Goto,
           loaderVars, stateVars
  <2>4. CacheOfOwnGen'
    BY <1>1
       DEF IInv, CacheOfOwnGen, Strong, BeginCreate, BeginCommand, Goto,
           loaderVars, stateVars
  <2>5. InvalidIsOld'
    BY <1>1
       DEF IInv, InvalidIsOld, BeginCreate, BeginCommand, Goto, loaderVars,
           stateVars
  <2>6. HandlerLocals'
    BY <1>1
       DEF IInv, HandlerLocals, TypeOK, Guarded, Usable, InTable, Strong,
           BeginCreate, BeginCommand, Goto, loaderVars, stateVars
  <2>7. ReplyPending'
    BY <1>1, Distinct
       DEF IInv, HandlerLocals, ReplyPending, TypeOK, Guarded, BeginCreate,
           BeginCommand, Answer, Goto, stateVars, connVars
  <2> QED BY <2>1, <2>2, <2>3, <2>4, <2>5, <2>6, <2>7 DEF IInv
<1>2. ASSUME NEW c \in Conns, NEW h \in Handles, NEW op \in Commands, BeginCommand(c, op, h)
      PROVE  IInv'
  <2>1. LockExcludes'
    BY <1>2
       DEF IInv, LockExcludes, Guarded, Exclusive, ReadLockable, Readers,
           TypeOK, BeginCommand, Goto, loaderVars, stateVars, Commands
  <2>2. LoaderLocals'
    BY <1>2
       DEF IInv, LoaderLocals, Strong, BeginCommand, Goto, loaderVars,
           stateVars, Commands
  <2>3. ValidRegistered'
    BY <1>2
       DEF IInv, ValidRegistered, Strong, BeginCommand, Goto, loaderVars,
           stateVars, Commands
  <2>4. CacheOfOwnGen'
    BY <1>2
       DEF IInv, CacheOfOwnGen, Strong, BeginCommand, Goto, loaderVars,
           stateVars, Commands
  <2>5. InvalidIsOld'
    BY <1>2
       DEF IInv, InvalidIsOld, BeginCommand, Goto, loaderVars, stateVars,
           Commands
  <2>6. HandlerLocals'
    BY <1>2
       DEF IInv, HandlerLocals, TypeOK, Guarded, Usable, InTable, Strong,
           BeginCommand, Goto, loaderVars, stateVars, Commands
  <2>7. ReplyPending'
    BY <1>2, Distinct
       DEF IInv, HandlerLocals, ReplyPending, TypeOK, Guarded, BeginCommand,
           Commands, Answer, Goto, stateVars, connVars
  <2> QED BY <2>1, <2>2, <2>3, <2>4, <2>5, <2>6, <2>7 DEF IInv
<1>3. ASSUME NEW c \in Conns, CreateStat(c) PROVE IInv'
  <2>1. LockExcludes'
    BY <1>3
       DEF IInv, LockExcludes, Guarded, Exclusive, ReadLockable, Readers,
           TypeOK, CreateStat, Answer, Goto, loaderVars, stateVars
  <2>2. LoaderLocals'
    BY <1>3
       DEF IInv, LoaderLocals, Strong, CreateStat, Answer, Goto, loaderVars,
           stateVars
  <2>3. ValidRegistered'
    BY <1>3
       DEF IInv, ValidRegistered, Strong, CreateStat, Answer, Goto, loaderVars,
           stateVars
  <2>4. CacheOfOwnGen'
    BY <1>3
       DEF IInv, CacheOfOwnGen, Strong, CreateStat, Answer, Goto, loaderVars,
           stateVars
  <2>5. InvalidIsOld'
    BY <1>3 DEF IInv, InvalidIsOld, CreateStat, Answer, Goto, loaderVars, stateVars
  <2>6. HandlerLocals'
    BY <1>3
       DEF IInv, HandlerLocals, TypeOK, Guarded, Usable, InTable, Strong,
           CreateStat, Answer, Goto, loaderVars, stateVars
  <2>7. ReplyPending'
    BY <1>3, Distinct
       DEF IInv, HandlerLocals, ReplyPending, TypeOK, Guarded, CreateStat,
           Answer, Goto, stateVars, connVars
  <2> QED BY <2>1, <2>2, <2>3, <2>4, <2>5, <2>6, <2>7 DEF IInv
<1>4. ASSUME NEW c \in Conns, NEW k \in Kinds, CreateInsert(c, k) PROVE IInv'
  <2>1. LockExcludes'
    BY <1>4
       DEF IInv, LockExcludes, Guarded, Exclusive, ReadLockable, Readers,
           TypeOK, CreateInsert, Register, Answer, Goto, loaderVars
  <2>2. LoaderLocals'
    BY <1>4
       DEF IInv, LoaderLocals, Strong, TypeOK, Stages, LockExcludes, Guarded,
           Exclusive, CreateInsert, Register, Answer, Goto, loaderVars
  <2>3. ValidRegistered'
    BY <1>4
       DEF IInv, ValidRegistered, Strong, TypeOK, LockExcludes, LoaderLocals,
           HandlerLocals, Guarded, Exclusive, CreateInsert, Register, Answer,
           Goto, loaderVars
  <2>4. CacheOfOwnGen'
    BY <1>4
       DEF IInv, CacheOfOwnGen, Strong, TypeOK, ValidRegistered, InvalidIsOld,
           Usable, InTable, CreateInsert, Register, Answer, Goto, loaderVars
  <2>5. InvalidIsOld'
    BY <1>4
       DEF IInv, InvalidIsOld, Strong, TypeOK, LoaderLocals, HandlerLocals,
           InTable, Guarded, CreateInsert, Register, Answer, Goto, loaderVars
  <2>6. HandlerLocals'
    BY <1>4
       DEF IInv, HandlerLocals, TypeOK, Guarded, Usable, InTable, Strong,
           CreateInsert, Register, Answer, Goto, loaderVars
  <2>7. ReplyPending'
    BY <1>4, Distinct
       DEF IInv, HandlerLocals, ReplyPending, TypeOK, Guarded, CreateInsert,
           Register, Answer, Goto, stateVars, connVars
  <2> QED BY <2>1, <2>2, <2>3, <2>4, <2>5, <2>6, <2>7 DEF IInv
<1>5. ASSUME NEW c \in Conns, Read(c) PROVE IInv'
  <2>1. LockExcludes'
    BY <1>5
       DEF IInv, LockExcludes, Guarded, Exclusive, ReadLockable, Readers,
           TypeOK, Read, Refuse, Answer, Goto, loaderVars, stateVars
  <2>2. LoaderLocals'
    BY <1>5
       DEF IInv, LoaderLocals, Strong, Read, Refuse, Answer, Goto, loaderVars,
           stateVars
  <2>3. ValidRegistered'
    BY <1>5
       DEF IInv, ValidRegistered, Strong, Read, Refuse, Answer, Goto,
           loaderVars, stateVars
  <2>4. CacheOfOwnGen'
    BY <1>5
       DEF IInv, CacheOfOwnGen, Strong, TypeOK, ValidRegistered, InvalidIsOld,
           Usable, InTable, Read, Refuse, Answer, Goto, loaderVars, stateVars
  <2>5. InvalidIsOld'
    BY <1>5
       DEF IInv, InvalidIsOld, Usable, InTable, TypeOK, Read, Refuse,
           Answer, Goto, loaderVars, stateVars
  <2>6. HandlerLocals'
    BY <1>5
       DEF IInv, HandlerLocals, TypeOK, Guarded, Usable, InTable, CacheOfOwnGen,
           ValidRegistered, LockExcludes, LoaderLocals, Exclusive, Strong,
           InvalidIsOld, Read, Refuse, Answer, Goto, loaderVars, stateVars
  <2>7. ReplyPending'
    BY <1>5, Distinct
       DEF IInv, HandlerLocals, ReplyPending, TypeOK, Guarded, Read, Refuse,
           Answer, Goto, stateVars, connVars
  <2> QED BY <2>1, <2>2, <2>3, <2>4, <2>5, <2>6, <2>7 DEF IInv
<1>6. ASSUME NEW c \in Conns, ReadAt(c) PROVE IInv'
  <2>1. LockExcludes'
    BY <1>6
       DEF IInv, LockExcludes, Guarded, Exclusive, ReadLockable, Readers,
           TypeOK, ReadAt, Answer, Goto, loaderVars, stateVars
  <2>2. LoaderLocals'
    BY <1>6
       DEF IInv, LoaderLocals, Strong, ReadAt, Answer, Goto, loaderVars,
           stateVars
  <2>3. ValidRegistered'
    BY <1>6
       DEF IInv, ValidRegistered, Strong, ReadAt, Answer, Goto, loaderVars,
           stateVars
  <2>4. CacheOfOwnGen'
    BY <1>6
       DEF IInv, CacheOfOwnGen, Strong, ReadAt, Answer, Goto, loaderVars,
           stateVars
  <2>5. InvalidIsOld'
    BY <1>6 DEF IInv, InvalidIsOld, ReadAt, Answer, Goto, loaderVars, stateVars
  <2>6. HandlerLocals'
    BY <1>6
       DEF IInv, HandlerLocals, TypeOK, Guarded, Usable, InTable, Strong,
           ReadAt, Answer, Goto, loaderVars, stateVars
  <2>7. ReplyPending'
    BY <1>6, Distinct
       DEF IInv, HandlerLocals, ReplyPending, TypeOK, Guarded, ReadAt, Answer,
           Goto, stateVars, connVars
  <2> QED BY <2>1, <2>2, <2>3, <2>4, <2>5, <2>6, <2>7 DEF IInv
<1>7. ASSUME NEW c \in Conns, QueryDirectory(c) PROVE IInv'
  <2>1. LockExcludes'
    BY <1>7
       DEF IInv, LockExcludes, Guarded, Exclusive, ReadLockable, Readers,
           TypeOK, QueryDirectory, Refuse, Answer, Goto, loaderVars, stateVars
  <2>2. LoaderLocals'
    BY <1>7
       DEF IInv, LoaderLocals, Strong, QueryDirectory, Refuse, Answer, Goto,
           loaderVars, stateVars
  <2>3. ValidRegistered'
    BY <1>7
       DEF IInv, ValidRegistered, Strong, QueryDirectory, Refuse, Answer, Goto,
           loaderVars, stateVars
  <2>4. CacheOfOwnGen'
    BY <1>7
       DEF IInv, CacheOfOwnGen, Strong, QueryDirectory, Refuse, Answer, Goto,
           loaderVars, stateVars
  <2>5. InvalidIsOld'
    BY <1>7
       DEF IInv, InvalidIsOld, QueryDirectory, Refuse, Answer, Goto, loaderVars,
           stateVars
  <2>6. HandlerLocals'
    BY <1>7
       DEF IInv, HandlerLocals, TypeOK, Guarded, Usable, InTable, CacheOfOwnGen,
           ValidRegistered, LockExcludes, LoaderLocals, Exclusive, Strong,
           InvalidIsOld, QueryDirectory, Refuse, Answer, Goto, loaderVars,
           stateVars
  <2>7. ReplyPending'
    BY <1>7, Distinct
       DEF IInv, HandlerLocals, ReplyPending, TypeOK, Guarded, QueryDirectory,
           Refuse, Answer, Goto, stateVars, connVars
  <2> QED BY <2>1, <2>2, <2>3, <2>4, <2>5, <2>6, <2>7 DEF IInv
<1>8. ASSUME NEW c \in Conns, ListBacking(c) PROVE IInv'
  <2>1. LockExcludes'
    BY <1>8
       DEF IInv, LockExcludes, Guarded, Exclusive, ReadLockable, Readers,
           TypeOK, ListBacking, Answer, Goto, loaderVars, stateVars
  <2>2. LoaderLocals'
    BY <1>8
       DEF IInv, LoaderLocals, Strong, ListBacking, Answer, Goto, loaderVars,
           stateVars
  <2>3. ValidRegistered'
    BY <1>8
       DEF IInv, ValidRegistered, Strong, ListBacking, Answer, Goto, loaderVars,
           stateVars
  <2>4. CacheOfOwnGen'
    BY <1>8
       DEF IInv, CacheOfOwnGen, Strong, ListBacking, Answer, Goto, loaderVars,
           stateVars
  <2>5. InvalidIsOld'
    BY <1>8 DEF IInv, InvalidIsOld, ListBacking, Answer, Goto, loaderVars, stateVars
  <2>6. HandlerLocals'
    BY <1>8
       DEF IInv, HandlerLocals, TypeOK, Guarded, Usable, InTable, Strong,
           ListBacking, Answer, Goto, loaderVars, stateVars
  <2>7. ReplyPending'
    BY <1>8, Distinct
       DEF IInv, HandlerLocals, ReplyPending, TypeOK, Guarded, ListBacking,
           Answer, Goto, stateVars, connVars
  <2> QED BY <2>1, <2>2, <2>3, <2>4, <2>5, <2>6, <2>7 DEF IInv
<1>9. ASSUME NEW c \in Conns, FillListing(c) PROVE IInv'
  <2>1. LockExcludes'
    BY <1>9
       DEF IInv, LockExcludes, Guarded, Exclusive, ReadLockable, Readers,
           TypeOK, FillListing, Answer, Goto, loaderVars
  <2>2. LoaderLocals'
    BY <1>9 DEF IInv, LoaderLocals, Strong, FillListing, Answer, Goto, loaderVars
  <2>3. ValidRegistered'
    BY <1>9 DEF IInv, ValidRegistered, Strong, FillListing, Answer, Goto, loaderVars
  <2>4. CacheOfOwnGen'
    BY <1>9
       DEF IInv, CacheOfOwnGen, Strong, TypeOK, ValidRegistered, InvalidIsOld,
           HandlerLocals, Usable, InTable, Guarded, Exclusive, FillListing,
           Answer, Goto, loaderVars
  <2>5. InvalidIsOld'
    BY <1>9
       DEF IInv, InvalidIsOld, Usable, InTable, TypeOK, FillListing, Answer,
           Goto, loaderVars
  <2>6. HandlerLocals'
    BY <1>9
       DEF IInv, HandlerLocals, TypeOK, Guarded, Usable, InTable, Strong,
           FillListing, Answer, Goto, loaderVars
  <2>7. ReplyPending'
    BY <1>9, Distinct
       DEF IInv, HandlerLocals, ReplyPending, TypeOK, Guarded, FillListing,
           Answer, Goto, stateVars, connVars
  <2> QED BY <2>1, <2>2, <2>3, <2>4, <2>5, <2>6, <2>7 DEF IInv
<1>10. ASSUME NEW c \in Conns, QueryInfo(c) PROVE IInv'
  <2>1. LockExcludes'
    BY <1>10
       DEF IInv, LockExcludes, Guarded, Exclusive, ReadLockable, Readers,
           TypeOK, QueryInfo, Refuse, Answer, Goto, loaderVars, stateVars
  <2>2. LoaderLocals'
    BY <1>10
       DEF IInv, LoaderLocals, Strong, QueryInfo, Refuse, Answer, Goto, loaderVars,
           stateVars
  <2>3. ValidRegistered'
    BY <1>10
       DEF IInv, ValidRegistered, Strong, QueryInfo, Refuse, Answer, Goto, loaderVars,
           stateVars
  <2>4. CacheOfOwnGen'
    BY <1>10
       DEF IInv, CacheOfOwnGen, Strong, QueryInfo, Refuse, Answer, Goto, loaderVars,
           stateVars
  <2>5. InvalidIsOld'
    BY <1>10 DEF IInv, InvalidIsOld, QueryInfo, Refuse, Answer, Goto, loaderVars, stateVars
  <2>6. HandlerLocals'
    BY <1>10
       DEF IInv, HandlerLocals, TypeOK, Guarded, Usable, InTable, Strong,
           QueryInfo, Refuse, Answer, Goto, loaderVars, stateVars
  <2>7. ReplyPending'
    BY <1>10, Distinct
       DEF IInv, HandlerLocals, ReplyPending, TypeOK, Guarded, QueryInfo,
           Refuse, Answer, Goto, stateVars, connVars
  <2> QED BY <2>1, <2>2, <2>3, <2>4, <2>5, <2>6, <2>7 DEF IInv
<1>11. ASSUME NEW c \in Conns, EndCommand(c) PROVE IInv'
  <2>1. LockExcludes'
    BY <1>11
       DEF IInv, LockExcludes, Guarded, Exclusive, ReadLockable, Readers,
           TypeOK, EndCommand, Goto, loaderVars, stateVars
  <2>2. LoaderLocals'
    BY <1>11 DEF IInv, LoaderLocals, Strong, EndCommand, Goto, loaderVars, stateVars
  <2>3. ValidRegistered'
    BY <1>11
       DEF IInv, ValidRegistered, Strong, EndCommand, Goto, loaderVars,
           stateVars
  <2>4. CacheOfOwnGen'
    BY <1>11
       DEF IInv, CacheOfOwnGen, Strong, EndCommand, Goto, loaderVars, stateVars
  <2>5. InvalidIsOld'
    BY <1>11 DEF IInv, InvalidIsOld, EndCommand, Goto, loaderVars, stateVars
  <2>6. HandlerLocals'
    BY <1>11
       DEF IInv, HandlerLocals, TypeOK, Guarded, Usable, InTable, Strong,
           EndCommand, Goto, loaderVars, stateVars
  <2>7. ReplyPending'
    BY <1>11, Distinct
       DEF IInv, HandlerLocals, ReplyPending, TypeOK, Guarded, EndCommand,
           Answer, Goto, stateVars, connVars
  <2> QED BY <2>1, <2>2, <2>3, <2>4, <2>5, <2>6, <2>7 DEF IInv
<1>12. ASSUME NEW c \in Conns, NEW h \in Handles, Close(c, h) PROVE IInv'
  <2>1. LockExcludes'
    BY <1>12
       DEF IInv, LockExcludes, Guarded, Exclusive, ReadLockable, Readers,
           TypeOK, Close, Release, Goto, loaderVars
  <2>2. LoaderLocals'
    BY <1>12
       DEF IInv, LoaderLocals, Strong, TypeOK, Stages, LockExcludes, Guarded,
           Exclusive, Close, Release, Goto, loaderVars
  <2>3. ValidRegistered'
    BY <1>12
       DEF IInv, ValidRegistered, Strong, InTable, TypeOK, Close, Release,
           loaderVars
  <2>4. CacheOfOwnGen'
    BY <1>12
       DEF IInv, CacheOfOwnGen, Strong, TypeOK, ValidRegistered, InvalidIsOld,
           Usable, InTable, Close, Release, Goto, loaderVars
  <2>5. InvalidIsOld'
    BY <1>12
       DEF IInv, InvalidIsOld, Strong, TypeOK, LoaderLocals, HandlerLocals,
           InTable, Guarded, Close, Release, Goto, loaderVars
  <2>6. HandlerLocals'
    BY <1>12
       DEF IInv, HandlerLocals, TypeOK, Guarded, Usable, InTable, Strong, Close,
           Release, Goto, loaderVars
  <2>7. ReplyPending'
    BY <1>12, Distinct
       DEF IInv, HandlerLocals, ReplyPending, TypeOK, Guarded, Close, Release,
           Table, Answer, Goto, stateVars, connVars
  <2> QED BY <2>1, <2>2, <2>3, <2>4, <2>5, <2>6, <2>7 DEF IInv
<1>13. ASSUME NEW c \in Conns, NEW S \in SUBSET Handles, CloseTree(c, S) PROVE IInv'
  <2>1. LockExcludes'
    BY <1>13
       DEF IInv, LockExcludes, Guarded, Exclusive, ReadLockable, Readers,
           TypeOK, CloseTree, Release, Table, Goto, loaderVars
  <2>2. LoaderLocals'
    BY <1>13
       DEF IInv, LoaderLocals, Strong, TypeOK, Stages, LockExcludes, Guarded,
           Exclusive, CloseTree, Release, Table, Goto, loaderVars
  <2>3. ValidRegistered'
    BY <1>13
       DEF IInv, ValidRegistered, Strong, TypeOK, CloseTree, Table, InTable,
           Release, loaderVars
  <2>4. CacheOfOwnGen'
    BY <1>13
       DEF IInv, CacheOfOwnGen, Strong, TypeOK, ValidRegistered, InvalidIsOld,
           Usable, InTable, CloseTree, Release, Table, Goto, loaderVars
  <2>5. InvalidIsOld'
    BY <1>13
       DEF IInv, InvalidIsOld, Strong, TypeOK, LoaderLocals, HandlerLocals,
           InTable, Guarded, CloseTree, Release, Table, Goto, loaderVars
  <2>6. HandlerLocals'
    BY <1>13
       DEF IInv, HandlerLocals, TypeOK, Guarded, Usable, InTable, Strong,
           CloseTree, Release, Table, Goto, loaderVars
  <2>7. ReplyPending'
    BY <1>13, Distinct
       DEF IInv, HandlerLocals, ReplyPending, TypeOK, Guarded, CloseTree,
           Release, Table, Answer, Goto, stateVars, connVars
  <2> QED BY <2>1, <2>2, <2>3, <2>4, <2>5, <2>6, <2>7 DEF IInv
<1>14. ASSUME NEW c \in Conns, CloseAll(c) PROVE IInv'
  <2>1. LockExcludes'
    BY <1>14
       DEF IInv, LockExcludes, Guarded, Exclusive, ReadLockable, Readers,
           TypeOK, CloseAll, Release, Table, Goto, loaderVars
  <2>2. LoaderLocals'
    BY <1>14
       DEF IInv, LoaderLocals, Strong, TypeOK, Stages, LockExcludes, Guarded,
           Exclusive, CloseAll, Release, Table, Goto, loaderVars
  <2>3. ValidRegistered'
    BY <1>14
       DEF IInv, ValidRegistered, Strong, TypeOK, CloseAll, Table, InTable,
           Release, loaderVars
  <2>4. CacheOfOwnGen'
    BY <1>14
       DEF IInv, CacheOfOwnGen, Strong, TypeOK, ValidRegistered, InvalidIsOld,
           Usable, InTable, CloseAll, Release, Table, Goto, loaderVars
  <2>5. InvalidIsOld'
    BY <1>14
       DEF IInv, InvalidIsOld, Strong, TypeOK, LoaderLocals, HandlerLocals,
           InTable, Guarded, CloseAll, Release, Table, Goto, loaderVars
  <2>6. HandlerLocals'
    BY <1>14
       DEF IInv, HandlerLocals, TypeOK, Guarded, Usable, InTable, Strong,
           CloseAll, Release, Table, Goto, loaderVars
  <2>7. ReplyPending'
    BY <1>14, Distinct
       DEF IInv, HandlerLocals, ReplyPending, TypeOK, Guarded, CloseAll,
           Release, Table, Answer, Goto, stateVars, connVars
  <2> QED BY <2>1, <2>2, <2>3, <2>4, <2>5, <2>6, <2>7 DEF IInv
<1>15. ASSUME NEW c \in Conns, NEW h \in Handles, DropArc(c, h) PROVE IInv'
  <2>1. LockExcludes'
    BY <1>15 DEF IInv, LockExcludes, DropArc, loaderVars, connVars
  <2>2. LoaderLocals'
    BY <1>15 DEF IInv, LoaderLocals, Strong, DropArc, loaderVars, connVars
  <2>3. ValidRegistered'
    BY <1>15 DEF IInv, ValidRegistered, Strong, DropArc, loaderVars, connVars
  <2>4. CacheOfOwnGen'
    BY <1>15 DEF IInv, CacheOfOwnGen, Strong, DropArc, loaderVars, connVars
  <2>5. InvalidIsOld'
    BY <1>15 DEF IInv, InvalidIsOld, DropArc, loaderVars, connVars
  <2>6. HandlerLocals'
    BY <1>15
       DEF IInv, HandlerLocals, TypeOK, Guarded, Usable, InTable, Strong,
           DropArc, loaderVars, connVars
  <2>7. ReplyPending'
    BY <1>15, Distinct
       DEF IInv, HandlerLocals, ReplyPending, TypeOK, Guarded, DropArc, Answer,
           Goto, stateVars, connVars
  <2> QED BY <2>1, <2>2, <2>3, <2>4, <2>5, <2>6, <2>7 DEF IInv
<1>16. ASSUME NEW c \in Conns, NEW h \in Handles, DropState(c, h) PROVE IInv'
  <2>1. LockExcludes'
    BY <1>16 DEF IInv, LockExcludes, DropState, loaderVars, connVars
  <2>2. LoaderLocals'
    BY <1>16 DEF IInv, LoaderLocals, Strong, DropState, loaderVars, connVars
  <2>3. ValidRegistered'
    BY <1>16 DEF IInv, ValidRegistered, Strong, DropState, loaderVars, connVars
  <2>4. CacheOfOwnGen'
    BY <1>16 DEF IInv, CacheOfOwnGen, Strong, DropState, loaderVars, connVars
  <2>5. InvalidIsOld'
    BY <1>16 DEF IInv, InvalidIsOld, DropState, loaderVars, connVars
  <2>6. HandlerLocals'
    BY <1>16
       DEF IInv, HandlerLocals, TypeOK, Guarded, Usable, InTable, Strong,
           DropState, loaderVars, connVars
  <2>7. ReplyPending'
    BY <1>16, Distinct
       DEF IInv, HandlerLocals, ReplyPending, TypeOK, Guarded, DropState,
           Answer, Goto, stateVars, connVars
  <2> QED BY <2>1, <2>2, <2>3, <2>4, <2>5, <2>6, <2>7 DEF IInv
<1>17. ASSUME NEW c \in Conns, EndRelease(c) PROVE IInv'
  <2>1. LockExcludes'
    BY <1>17
       DEF IInv, LockExcludes, Guarded, Exclusive, ReadLockable, Readers,
           TypeOK, EndRelease, Goto, loaderVars, stateVars
  <2>2. LoaderLocals'
    BY <1>17 DEF IInv, LoaderLocals, Strong, EndRelease, Goto, loaderVars, stateVars
  <2>3. ValidRegistered'
    BY <1>17
       DEF IInv, ValidRegistered, Strong, EndRelease, Goto, loaderVars,
           stateVars
  <2>4. CacheOfOwnGen'
    BY <1>17
       DEF IInv, CacheOfOwnGen, Strong, EndRelease, Goto, loaderVars, stateVars
  <2>5. InvalidIsOld'
    BY <1>17 DEF IInv, InvalidIsOld, EndRelease, Goto, loaderVars, stateVars
  <2>6. HandlerLocals'
    BY <1>17
       DEF IInv, HandlerLocals, TypeOK, Guarded, Usable, InTable, Strong,
           EndRelease, Goto, loaderVars, stateVars
  <2>7. ReplyPending'
    BY <1>17, Distinct
       DEF IInv, HandlerLocals, ReplyPending, TypeOK, Guarded, EndRelease,
           Answer, Goto, stateVars, connVars
  <2> QED BY <2>1, <2>2, <2>3, <2>4, <2>5, <2>6, <2>7 DEF IInv
<1>18. ASSUME Load PROVE IInv'
  <2>1. LockExcludes'
    BY <1>18
       DEF IInv, LockExcludes, Guarded, Exclusive, ReadLockable, Readers,
           TypeOK, Load, connVars, stateVars
  <2>2. LoaderLocals'
    BY <1>18 DEF IInv, LoaderLocals, Load, connVars, stateVars
  <2>3. ValidRegistered'
    BY <1>18 DEF IInv, ValidRegistered, Strong, Load, connVars, stateVars
  <2>4. CacheOfOwnGen'
    BY <1>18 DEF IInv, CacheOfOwnGen, Strong, Load, connVars, stateVars
  <2>5. InvalidIsOld'
    BY <1>18 DEF IInv, InvalidIsOld, Load, connVars, stateVars
  <2>6. HandlerLocals'
    BY <1>18
       DEF IInv, HandlerLocals, TypeOK, Guarded, Usable, InTable, Strong, Load,
           connVars, stateVars
  <2>7. ReplyPending'
    BY <1>18, Distinct
       DEF IInv, HandlerLocals, ReplyPending, TypeOK, Guarded, Load, Answer,
           Goto, stateVars, connVars
  <2> QED BY <2>1, <2>2, <2>3, <2>4, <2>5, <2>6, <2>7 DEF IInv
<1>19. ASSUME LoadQueue PROVE IInv'
  <2>1. LockExcludes'
    BY <1>19
       DEF IInv, LockExcludes, Guarded, Exclusive, ReadLockable, Readers,
           TypeOK, LoadQueue, connVars, stateVars
  <2>2. LoaderLocals'
    BY <1>19 DEF IInv, LoaderLocals, LoadQueue, connVars, stateVars
  <2>3. ValidRegistered'
    BY <1>19 DEF IInv, ValidRegistered, Strong, LoadQueue, connVars, stateVars
  <2>4. CacheOfOwnGen'
    BY <1>19 DEF IInv, CacheOfOwnGen, Strong, LoadQueue, connVars, stateVars
  <2>5. InvalidIsOld'
    BY <1>19 DEF IInv, InvalidIsOld, LoadQueue, connVars, stateVars
  <2>6. HandlerLocals'
    BY <1>19
       DEF IInv, HandlerLocals, TypeOK, Guarded, Usable, InTable, Strong,
           LoadQueue, connVars, stateVars
  <2>7. ReplyPending'
    BY <1>19, Distinct
       DEF IInv, HandlerLocals, ReplyPending, TypeOK, Guarded, LoadQueue,
           Answer, Goto, stateVars, connVars
  <2> QED BY <2>1, <2>2, <2>3, <2>4, <2>5, <2>6, <2>7 DEF IInv
<1>20. ASSUME LoadLock PROVE IInv'
  <2>1. LockExcludes'
    BY <1>20
       DEF IInv, LockExcludes, Guarded, Exclusive, ReadLockable, Readers,
           TypeOK, LoadLock, connVars, stateVars
  <2>2. LoaderLocals'
    BY <1>20 DEF IInv, LoaderLocals, LoadLock, connVars, stateVars
  <2>3. ValidRegistered'
    BY <1>20 DEF IInv, ValidRegistered, Strong, LoadLock, connVars, stateVars
  <2>4. CacheOfOwnGen'
    BY <1>20 DEF IInv, CacheOfOwnGen, Strong, LoadLock, connVars, stateVars
  <2>5. InvalidIsOld'
    BY <1>20 DEF IInv, InvalidIsOld, LoadLock, connVars, stateVars
  <2>6. HandlerLocals'
    BY <1>20
       DEF IInv, HandlerLocals, TypeOK, Guarded, Usable, InTable, Strong,
           LoadLock, connVars, stateVars
  <2>7. ReplyPending'
    BY <1>20, Distinct
       DEF IInv, HandlerLocals, ReplyPending, TypeOK, Guarded, LoadLock, Answer,
           Goto, stateVars, connVars
  <2> QED BY <2>1, <2>2, <2>3, <2>4, <2>5, <2>6, <2>7 DEF IInv
<1>21. ASSUME LoadTake PROVE IInv'
  <2>1. LockExcludes'
    BY <1>21
       DEF IInv, LockExcludes, Guarded, Exclusive, ReadLockable, Readers,
           TypeOK, LoadTake, connVars, stateVars
  <2>2. LoaderLocals'
    BY <1>21 DEF IInv, LoaderLocals, LoadTake, connVars, stateVars
  <2>3. ValidRegistered'
    BY <1>21
       DEF IInv, ValidRegistered, Strong, TypeOK, LoaderLocals, LoadTake,
           connVars, stateVars
  <2>4. CacheOfOwnGen'
    BY <1>21 DEF IInv, CacheOfOwnGen, Strong, LoadTake, connVars, stateVars
  <2>5. InvalidIsOld'
    BY <1>21 DEF IInv, InvalidIsOld, LoadTake, connVars, stateVars
  <2>6. HandlerLocals'
    BY <1>21
       DEF IInv, HandlerLocals, TypeOK, Guarded, Usable, InTable, Strong,
           LoadTake, connVars, stateVars
  <2>7. ReplyPending'
    BY <1>21, Distinct
       DEF IInv, HandlerLocals, ReplyPending, TypeOK, Guarded, LoadTake, Answer,
           Goto, stateVars, connVars
  <2> QED BY <2>1, <2>2, <2>3, <2>4, <2>5, <2>6, <2>7 DEF IInv
<1>22. ASSUME NEW h \in Handles, LoadUpgrade(h) PROVE IInv'
  <2>1. LockExcludes'
    BY <1>22 DEF IInv, LockExcludes, LoadUpgrade, connVars, stateVars
  <2>2. LoaderLocals'
    BY <1>22 DEF IInv, LoaderLocals, Strong, LoadUpgrade, connVars, stateVars
  <2>3. ValidRegistered'
    BY <1>22 DEF IInv, ValidRegistered, Strong, LoadUpgrade, connVars, stateVars
  <2>4. CacheOfOwnGen'
    BY <1>22 DEF IInv, CacheOfOwnGen, Strong, LoadUpgrade, connVars, stateVars
  <2>5. InvalidIsOld'
    BY <1>22 DEF IInv, InvalidIsOld, LoadUpgrade, connVars, stateVars
  <2>6. HandlerLocals'
    BY <1>22
       DEF IInv, HandlerLocals, TypeOK, Guarded, Usable, InTable, Strong,
           LoadUpgrade, connVars, stateVars
  <2>7. ReplyPending'
    BY <1>22, Distinct
       DEF IInv, HandlerLocals, ReplyPending, TypeOK, Guarded, LoadUpgrade,
           Answer, Goto, stateVars, connVars
  <2> QED BY <2>1, <2>2, <2>3, <2>4, <2>5, <2>6, <2>7 DEF IInv
<1>23. ASSUME LoadInvalidate PROVE IInv'
  <2>1. LockExcludes'
    BY <1>23 DEF IInv, LockExcludes, LoadInvalidate, connVars
  <2>2. LoaderLocals'
    BY <1>23 DEF IInv, LoaderLocals, Strong, LoadInvalidate, connVars
  <2>3. ValidRegistered'
    BY <1>23 DEF IInv, ValidRegistered, Strong, LoadInvalidate, connVars
  <2>4. CacheOfOwnGen'
    BY <1>23
       DEF IInv, CacheOfOwnGen, Strong, TypeOK, ValidRegistered, InvalidIsOld,
           Usable, InTable, LoadInvalidate, connVars
  <2>5. InvalidIsOld'
    BY <1>23
       DEF IInv, InvalidIsOld, Strong, TypeOK, LoaderLocals, HandlerLocals,
           InTable, Guarded, LoadInvalidate, connVars
  <2>6. HandlerLocals'
    BY <1>23
       DEF IInv, HandlerLocals, TypeOK, Guarded, Usable, InTable, CacheOfOwnGen,
           ValidRegistered, LockExcludes, LoaderLocals, Exclusive, Strong,
           InvalidIsOld, LoadInvalidate, connVars
  <2>7. ReplyPending'
    BY <1>23, Distinct
       DEF IInv, HandlerLocals, ReplyPending, TypeOK, Guarded, LoadInvalidate,
           Answer, Goto, stateVars, connVars
  <2> QED BY <2>1, <2>2, <2>3, <2>4, <2>5, <2>6, <2>7 DEF IInv
<1>24. ASSUME LoadDropArc PROVE IInv'
  <2>1. LockExcludes'
    BY <1>24 DEF IInv, LockExcludes, LoadDropArc, connVars
  <2>2. LoaderLocals'
    BY <1>24
       DEF IInv, LoaderLocals, Strong, TypeOK, Stages, LockExcludes, Guarded,
           Exclusive, LoadDropArc, connVars
  <2>3. ValidRegistered'
    BY <1>24 DEF IInv, ValidRegistered, Strong, LoadDropArc, connVars
  <2>4. CacheOfOwnGen'
    BY <1>24 DEF IInv, CacheOfOwnGen, Strong, LoadDropArc, connVars
  <2>5. InvalidIsOld'
    BY <1>24 DEF IInv, InvalidIsOld, LoadDropArc, connVars
  <2>6. HandlerLocals'
    BY <1>24
       DEF IInv, HandlerLocals, TypeOK, Guarded, Usable, InTable, Strong,
           LoadDropArc, connVars
  <2>7. ReplyPending'
    BY <1>24, Distinct
       DEF IInv, HandlerLocals, ReplyPending, TypeOK, Guarded, LoadDropArc,
           Answer, Goto, stateVars, connVars
  <2> QED BY <2>1, <2>2, <2>3, <2>4, <2>5, <2>6, <2>7 DEF IInv
<1>25. ASSUME LoadSwap PROVE IInv'
  <2>1. LockExcludes'
    BY <1>25
       DEF IInv, LockExcludes, Guarded, Exclusive, ReadLockable, Readers,
           TypeOK, LoadSwap, connVars, stateVars
  <2>2. LoaderLocals'
    BY <1>25 DEF IInv, LoaderLocals, LoadSwap, connVars, stateVars
  <2>3. ValidRegistered'
    BY <1>25
       DEF IInv, ValidRegistered, Strong, TypeOK, LoaderLocals, LoadSwap,
           connVars, stateVars
  <2>4. CacheOfOwnGen'
    BY <1>25 DEF IInv, CacheOfOwnGen, Strong, LoadSwap, connVars, stateVars
  <2>5. InvalidIsOld'
    BY <1>25 DEF IInv, InvalidIsOld, TypeOK, LoadSwap, connVars, stateVars
  <2>6. HandlerLocals'
    BY <1>25
       DEF IInv, HandlerLocals, TypeOK, Guarded, Usable, InTable, CacheOfOwnGen,
           ValidRegistered, LockExcludes, LoaderLocals, Exclusive, Strong,
           InvalidIsOld, LoadSwap, connVars, stateVars
  <2>7. ReplyPending'
    BY <1>25, Distinct
       DEF IInv, HandlerLocals, ReplyPending, TypeOK, Guarded, LoadSwap, Answer,
           Goto, stateVars, connVars
  <2> QED BY <2>1, <2>2, <2>3, <2>4, <2>5, <2>6, <2>7 DEF IInv
<1>26. ASSUME LoadReturn PROVE IInv'
  <2>1. LockExcludes'
    BY <1>26
       DEF IInv, LockExcludes, Guarded, Exclusive, ReadLockable, Readers,
           TypeOK, LoadReturn, connVars, stateVars
  <2>2. LoaderLocals'
    BY <1>26 DEF IInv, LoaderLocals, LoadReturn, connVars, stateVars
  <2>3. ValidRegistered'
    BY <1>26 DEF IInv, ValidRegistered, Strong, LoadReturn, connVars, stateVars
  <2>4. CacheOfOwnGen'
    BY <1>26 DEF IInv, CacheOfOwnGen, Strong, LoadReturn, connVars, stateVars
  <2>5. InvalidIsOld'
    BY <1>26 DEF IInv, InvalidIsOld, LoadReturn, connVars, stateVars
  <2>6. HandlerLocals'
    BY <1>26
       DEF IInv, HandlerLocals, TypeOK, Guarded, Usable, InTable, Strong,
           LoadReturn, connVars, stateVars
  <2>7. ReplyPending'
    BY <1>26, Distinct
       DEF IInv, HandlerLocals, ReplyPending, TypeOK, Guarded, LoadReturn,
           Answer, Goto, stateVars, connVars
  <2> QED BY <2>1, <2>2, <2>3, <2>4, <2>5, <2>6, <2>7 DEF IInv
<1> QED
  BY <1>0, <1>1, <1>2, <1>3, <1>4, <1>5, <1>6, <1>7, <1>8, <1>9, <1>10, <1>11,
     <1>12, <1>13, <1>14, <1>15, <1>16, <1>17, <1>18, <1>19, <1>20, <1>21,
     <1>22, <1>23, <1>24, <1>25, <1>26
     DEF Next, ConnRequest, ConnStep, LoadStep

\* So it holds throughout.
LEMMA Invariance == Spec => []IInv
<1>1. IInv /\ UNCHANGED vars => IInv'
  BY InvStep
<1> QED
  BY InitInv, InvStep, PTL DEF Spec

\* The variables stay in their types.
THEOREM TypeCorrect == Spec => []TypeOK
<1>1. IInv => TypeOK
  BY DEF IInv
<1> QED
  BY <1>1, Invariance, PTL

\* Between loads a handle works exactly if it was opened against the contents
\* that are loaded, whatever clients and owner did before.
THEOREM HandlesFollowLoads == Spec => []UsableExactlyIfCurrent
<1>1. IInv => UsableExactlyIfCurrent
  BY
     DEF IInv, TypeOK, ValidRegistered, InvalidIsOld, UsableExactlyIfCurrent,
         Strong, Exclusive
<1> QED
  BY <1>1, Invariance, PTL

\* Between loads no handle that anybody holds caches a reader or a listing of
\* earlier contents.
THEOREM NothingRetained == Spec => []NoRetainedCache
<1>1. IInv => NoRetainedCache
  BY DEF IInv, ValidRegistered, CacheOfOwnGen, NoRetainedCache
<1> QED
  BY <1>1, Invariance, PTL

\* Every answer with data in it is of the contents loaded when it is given.
THEOREM AnswersFresh == Spec => ServedFresh
<1> DEFINE Fresh(c) == reply'[c] # reply[c] /\ reply'[c].status = "ok" => reply'[c].from = gen
<1>1. ASSUME IInv, [Next]_vars, NEW d \in Conns PROVE Fresh(d)
  <2> USE <1>1 DEF IInv, HandlerLocals, TypeOK, Answer, Goto, Served
  <2>1. ASSUME NEW c \in Conns, CreateStat(c) \/ ListBacking(c) PROVE Fresh(d)
    BY <2>1 DEF CreateStat, ListBacking, Failed
  <2>2. ASSUME NEW c \in Conns, NEW k \in Kinds, CreateInsert(c, k) PROVE Fresh(d)
    BY <2>2 DEF CreateInsert
  <2>3. ASSUME NEW c \in Conns, Read(c) \/ QueryDirectory(c) PROVE Fresh(d)
    BY <2>3 DEF Read, QueryDirectory, Refuse, Failed, Closed
  <2>4. ASSUME NEW c \in Conns, ReadAt(c) PROVE Fresh(d)
    BY <2>4 DEF ReadAt, Failed
  <2>5. ASSUME NEW c \in Conns, FillListing(c) PROVE Fresh(d)
    BY <2>5 DEF FillListing, Closed, Failed, Guarded, Usable, InTable
  <2>6. ASSUME NEW c \in Conns, QueryInfo(c) PROVE Fresh(d)
    BY <2>6
       DEF QueryInfo, Refuse, Closed, Failed, Guarded, Usable, InTable,
           ValidRegistered, Strong
  <2>7. ASSUME NEW c \in Conns, EndCommand(c) \/ EndRelease(c) PROVE Fresh(d)
    BY <2>7 DEF EndCommand, EndRelease, NoReply
  <2>8. ASSUME NEW c \in Conns, NEW S, NEW r, Release(c, S, r), r.status # "ok"
        PROVE  Fresh(d)
    BY <2>8 DEF Release
  <2>9. ASSUME NEW c \in Conns, NEW h \in Handles, Close(c, h) PROVE Fresh(d)
    BY <2>9, <2>8 DEF Close, Closed, Done, Failed, Attributes
  <2>10. ASSUME NEW c \in Conns, NEW S \in SUBSET Handles, CloseTree(c, S) \/ CloseAll(c)
         PROVE  Fresh(d)
    BY <2>10, <2>8 DEF CloseTree, CloseAll, Done
  <2>11. CASE UNCHANGED reply
    BY <2>11
  <2> QED
    BY <2>1, <2>2, <2>3, <2>4, <2>5, <2>6, <2>7, <2>9, <2>10, <2>11
       DEF Next, ConnRequest, ConnStep, LoadStep, Load, BeginCreate, BeginCommand,
           DropArc, DropState, LoadQueue, LoadLock, LoadTake, LoadUpgrade,
           LoadInvalidate, LoadDropArc, LoadSwap, LoadReturn, connVars, vars
<1>2. IInv /\ [Next]_vars => [\A c \in Conns : Fresh(c)]_vars
  BY <1>1
<1> QED
  BY <1>2, Invariance, PTL DEF Spec, ServedFresh

-----------------------------------------------------------------------------
(* The share of module Share is implemented.                               *)

tables == [c \in Conns |-> Table(c)]

\* A step that puts no handle in a table and takes none out.
LEMMA TablesKept ==
  ASSUME TypeOK, owner' = owner,
         \A h \in Handles : stage'[h] = "open" <=> stage[h] = "open"
  PROVE  tables' = tables
  BY DEF tables, Table, InTable

\* Handles leaving the table of one connection.
LEMMA TablesReleased ==
  ASSUME TypeOK, NEW c \in Conns, NEW S \in SUBSET Table(c), NEW r, Release(c, S, r)
  PROVE  tables' = [tables EXCEPT ![c] = @ \ S]
<1>1. ASSUME NEW d \in Conns
      PROVE  Table(d)' = IF d = c THEN Table(c) \ S ELSE Table(d)
  BY DEF Release, Table, InTable, TypeOK
<1> QED
  BY <1>1 DEF tables

\* Every step of a request or a load is a step of the atomic share, or one that
\* it does not see.  What a handler answers from is current at that instant.
LEMMA AbstractStep == IInv /\ [Next]_vars => [Abstract!Next]_(Abstract!vars)
<1> SUFFICES ASSUME IInv, [Next]_vars PROVE Abstract!Next \/ UNCHANGED Abstract!vars
  OBVIOUS
<1> USE DEF IInv, Abstract!Answer
<1>n. /\ Abstract!NoReply = NoReply /\ Abstract!Closed = Closed /\ Abstract!Failed = Failed
      /\ Abstract!Done = Done
      /\ \A g : Abstract!Served(g) = Served(g) /\ Abstract!Attributes(g) = Attributes(g)
  BY
     DEF NoReply, Closed, Failed, Done, Served, Attributes, Abstract!NoReply,
         Abstract!Closed,
         Abstract!Failed, Abstract!Done, Abstract!Served, Abstract!Attributes
<1>v. ASSUME UNCHANGED << gen, stage, owner, born, reply >>
      PROVE  UNCHANGED Abstract!vars
  BY <1>v, TablesKept DEF Abstract!vars, tables
<1>f. ASSUME NEW c \in Conns, Answer(c, Failed), reply[c] = NoReply,
             UNCHANGED << gen, stage, owner, born >>
      PROVE  Abstract!Next
  <2>1. Abstract!Fail(c)
    BY <1>f, <1>n, TablesKept DEF Answer, Abstract!Fail, tables
  <2> QED BY <2>1 DEF Abstract!Next
<1>q. ASSUME NEW c \in Conns, NEW h \in Handles, reply[c] = NoReply,
             Answer(c, IF Usable(c, h) THEN Served(gen) ELSE Closed), loader \notin Exclusive,
             UNCHANGED << gen, stage, owner, born >>
      PROVE  Abstract!Next
  <2>1. h \in tables[c] /\ born[h] = gen <=> Usable(c, h)
    BY <1>q
       DEF tables, Table, Usable, InTable, InvalidIsOld, ValidRegistered,
           Strong, TypeOK, Exclusive
  <2>2. Abstract!Query(c, h)
    BY <1>q, <1>n, <2>1, TablesKept DEF Answer, Abstract!Query, tables
  <2> QED BY <2>2 DEF Abstract!Next
<1>r. ASSUME NEW c \in Conns, pc[c] \in Guarded \ { "replying" }
      PROVE  cur[c] \in Handles /\ reply[c] = NoReply /\ loader \notin Exclusive
  BY <1>r DEF HandlerLocals, ReplyPending, LockExcludes, Guarded
<1>1. ASSUME NEW c \in Conns, CreateStat(c)
      PROVE  Abstract!Next \/ UNCHANGED Abstract!vars
  BY <1>1, <1>r, <1>f, <1>v DEF CreateStat, Guarded, loaderVars, stateVars
<1>2. ASSUME NEW c \in Conns, NEW k \in Kinds, CreateInsert(c, k)
      PROVE  Abstract!Next
  <2> DEFINE h == cur[c]
  <2>1. h \in Handles /\ reply[c] = NoReply /\ local[c] = gen
    BY <1>2, <1>r DEF CreateInsert, Guarded, HandlerLocals
  <2>2. ASSUME NEW d \in Conns
        PROVE  Table(d)' = IF d = c THEN Table(c) \cup { h } ELSE Table(d)
    BY <1>2, <2>1 DEF CreateInsert, Table, InTable, TypeOK
  <2>3. tables' = [tables EXCEPT ![c] = @ \cup { h }]
    BY <2>2 DEF tables
  <2>4. Abstract!Open(c, h)
    BY <1>2, <2>1, <2>3, <1>n
       DEF CreateInsert, InvalidIsOld, Answer, loaderVars, Abstract!Open, tables
  <2> QED BY <2>1, <2>4 DEF Abstract!Next
<1>3. ASSUME NEW c \in Conns, Read(c) PROVE Abstract!Next \/ UNCHANGED Abstract!vars
  BY <1>3, <1>r, <1>f, <1>q, <1>v DEF Read, Refuse, Guarded, loaderVars, stateVars
<1>4. ASSUME NEW c \in Conns, ReadAt(c) PROVE Abstract!Next
  <2>1. Usable(c, cur[c]) /\ cache[cur[c]] = gen
    BY <1>4 DEF ReadAt, HandlerLocals
  <2> QED
    BY <1>4, <2>1, <1>r, <1>f, <1>q DEF ReadAt, Guarded, loaderVars, stateVars
<1>5. ASSUME NEW c \in Conns, QueryDirectory(c)
      PROVE  Abstract!Next \/ UNCHANGED Abstract!vars
  BY <1>5, <1>r, <1>f, <1>q, <1>v
     DEF QueryDirectory, Refuse, Guarded, loaderVars, stateVars
<1>6. ASSUME NEW c \in Conns, ListBacking(c)
      PROVE  Abstract!Next \/ UNCHANGED Abstract!vars
  BY <1>6, <1>r, <1>f, <1>v DEF ListBacking, Guarded, loaderVars, stateVars
<1>7. ASSUME NEW c \in Conns, FillListing(c) PROVE Abstract!Next
  <2>1. Usable(c, cur[c]) => cache'[cur[c]] = gen
    BY <1>7 DEF FillListing, HandlerLocals, TypeOK, Guarded
  <2> QED
    BY <1>7, <2>1, <1>r, <1>f, <1>q DEF FillListing, Guarded, loaderVars
<1>8. ASSUME NEW c \in Conns, QueryInfo(c) PROVE Abstract!Next
  <2>1. Usable(c, cur[c]) => born[cur[c]] = gen
    BY <1>8, <1>r DEF QueryInfo, Refuse, Guarded, Usable, InTable, ValidRegistered, Strong
  <2> QED
    BY <1>8, <2>1, <1>r, <1>f, <1>q DEF QueryInfo, Refuse, Guarded, loaderVars, stateVars
<1>9. ASSUME NEW c \in Conns, EndCommand(c) \/ EndRelease(c) PROVE Abstract!Next
  <2>1. Abstract!Respond(c)
    BY <1>9, <1>n, TablesKept
       DEF EndCommand, EndRelease, ReplyPending, loaderVars, stateVars,
       Abstract!Respond, tables
  <2> QED BY <2>1 DEF Abstract!Next
<1>10. ASSUME NEW c \in Conns, NEW h \in Handles, Close(c, h) PROVE Abstract!Next
  <2>1. CASE Release(c, {}, Failed)
    <3>1. tables' = tables
      BY <2>1, TablesKept DEF Release, TypeOK, tables
    <3>2. Abstract!Fail(c)
      BY <2>1, <3>1, <1>n
         DEF Release, ReplyPending, loaderVars, Abstract!Fail, tables
    <3> QED BY <3>2 DEF Abstract!Next
  <2>2. CASE ~Release(c, {}, Failed)
    <3>1. PICK S \in SUBSET Table(c), r \in { Done, Closed, Attributes(born[h]) } :
            /\ Release(c, S, r)
            /\ \/ S = { h } /\ h \in Table(c) /\ r \in { Done, Attributes(born[h]) }
               \/ S = {} /\ h \notin Table(c) /\ r = Closed
      BY <1>10, <2>2 DEF Close, Table
    <3>2. tables' = [tables EXCEPT ![c] = @ \ { h }]
      BY <3>1, TablesReleased DEF tables
    <3>3. Abstract!Close(c, h)
      BY <3>1, <3>2, <1>n
         DEF Release, ReplyPending, loaderVars, Abstract!Close, tables
    <3> QED BY <3>3 DEF Abstract!Next
  <2> QED BY <2>1, <2>2
<1>11. ASSUME NEW c \in Conns, NEW S \in SUBSET Table(c), Release(c, S, Done)
       PROVE  Abstract!Next
  <2>1. Abstract!CloseSome(c, S)
    BY <1>11, <1>n, TablesReleased
       DEF Release, ReplyPending, loaderVars, Abstract!CloseSome, tables
  <2>2. S \in SUBSET Handles
    BY DEF Table
  <2> QED BY <2>1, <2>2 DEF Abstract!Next
<1>12. ASSUME NEW c \in Conns, NEW S \in SUBSET Handles, CloseTree(c, S) \/ CloseAll(c)
       PROVE  Abstract!Next
  BY <1>12, <1>11 DEF CloseTree, CloseAll
<1>13. ASSUME NEW h \in Handles, NEW c \in Conns, DropArc(c, h) \/ DropState(c, h)
       PROVE  UNCHANGED Abstract!vars
  BY <1>13, TablesKept
     DEF DropArc, DropState, loaderVars, connVars, TypeOK, Abstract!vars, tables
<1>14. CASE LoadDropArc
  BY <1>14, TablesKept DEF LoadDropArc, connVars, TypeOK, Abstract!vars, tables
<1>15. CASE LoadSwap
  <2>1. Abstract!Load
    BY <1>15, TablesKept DEF LoadSwap, connVars, stateVars, Abstract!Load, tables
  <2> QED BY <2>1 DEF Abstract!Next
<1>16. CASE UNCHANGED << gen, stage, owner, born, reply >>
  BY <1>16, <1>v
<1> QED
  BY <1>1, <1>2, <1>3, <1>4, <1>5, <1>6, <1>7, <1>8, <1>9, <1>10, <1>12, <1>13, <1>14, <1>15, <1>16
     DEF Next, ConnRequest, ConnStep, LoadStep, Load, BeginCreate, BeginCommand, LoadQueue,
         LoadLock, LoadTake, LoadUpgrade, LoadInvalidate, LoadReturn, connVars, stateVars,
         loaderVars, vars

\* Nobody has opened anything at first.
LEMMA AbstractInit == Init => Abstract!Init
  BY DEF Init, Abstract!Init, Table, InTable, NoReply, Abstract!NoReply

\* Whatever the interleaving of commands, releases and loads, clients and owner
\* see the atomic share.
THEOREM Implementation == Spec => ImplementsShare
  BY AbstractInit, AbstractStep, Invariance, PTL
     DEF Spec, Abstract!Spec, ImplementsShare

-----------------------------------------------------------------------------
(* Registry: how large the vector of weak references gets.                 *)

\* What of the entries stays when retain is through, with what is being registered:
\* all of that was open at once when the registration began.
Remains == kept \cup ((states \ kept) \cap alive) \cup {registering}

RegistryTypes ==
  /\ states \subseteq Opens /\ kept \subseteq states /\ alive \subseteq Opens
  /\ unregistered \subseteq alive /\ unregistered \cap states = {}
  /\ registering \in unregistered \cup {NoOpen}
  /\ registering = NoOpen => kept = {}
  /\ capacity \in Nat /\ peak \in Nat

\* The entries fit; and whoever registers finds room after retain, or enough was open
\* at once for the vector to grow.
RegistryInv ==
  /\ RegistryTypes
  /\ Cardinality(alive) <= peak
  /\ Cardinality(states) <= capacity
  /\ capacity <= MIN_CAPACITY \/ capacity < 2 * peak
  /\ registering # NoOpen => Cardinality(states) < capacity \/ Cardinality(Remains) <= peak

\* The number of a finite set of things that can be open, and of a part of it.
LEMMA OpensCount ==
  \A s \in SUBSET Opens : /\ Cardinality(s) \in Nat
                          /\ \A t \in SUBSET s : Cardinality(t) <= Cardinality(s)
<1> SUFFICES ASSUME NEW s \in SUBSET Opens
             PROVE  /\ Cardinality(s) \in Nat
                    /\ \A t \in SUBSET s : Cardinality(t) <= Cardinality(s)
  OBVIOUS
<1>1. IsFiniteSet(s)
  BY RegistryAssumption, FS_Subset
<1> QED
  BY <1>1, FS_CardinalityType, FS_Subset

\* One more, and one less.
LEMMA OpensOneMore ==
  \A s \in SUBSET Opens : \A o \in Opens \ s : Cardinality(s \cup {o}) = Cardinality(s) + 1
<1> SUFFICES ASSUME NEW s \in SUBSET Opens, NEW o \in Opens \ s
             PROVE  Cardinality(s \cup {o}) = Cardinality(s) + 1
  OBVIOUS
<1>1. IsFiniteSet(s)
  BY RegistryAssumption, FS_Subset
<1> QED
  BY <1>1, FS_AddElement

LEMMA InitRegistryInv == RegistryInit => RegistryInv
BY FS_EmptySet, RegistryAssumption DEF RegistryInit, RegistryInv, RegistryTypes

LEMMA OpenNewKeeps == ASSUME RegistryInv, NEW o \in Opens, OpenNew(o) PROVE RegistryInv'
<1>1. RegistryTypes' /\ alive' \in SUBSET Opens /\ Cardinality(alive') \in Nat
  <2>1. alive' \in SUBSET Opens
    BY DEF OpenNew, RegistryInv, RegistryTypes
  <2>2. Cardinality(alive') \in Nat
    BY <2>1, OpensCount
  <2> QED
    BY <2>1, <2>2 DEF OpenNew, RegistryInv, RegistryTypes
<1>2. Cardinality(alive') <= peak' /\ peak <= peak'
  BY <1>1 DEF OpenNew, RegistryInv, RegistryTypes
<1>3. capacity' <= MIN_CAPACITY \/ capacity' < 2 * peak'
  BY <1>1, <1>2, RegistryAssumption DEF OpenNew, RegistryInv, RegistryTypes
<1>4. states' = states /\ capacity' = capacity /\ registering' = registering
  BY DEF OpenNew
<1>5. Remains' = Remains
  BY DEF OpenNew, Remains
<1>6. registering # NoOpen => Remains \in SUBSET Opens
  BY DEF Remains, RegistryInv, RegistryTypes
<1>7. registering # NoOpen => Cardinality(Remains) \in Nat
  BY <1>6, OpensCount
<1>8. peak \in Nat /\ peak' \in Nat
  BY <1>1 DEF RegistryInv, RegistryTypes
<1>9. registering' # NoOpen =>
        Cardinality(states') < capacity' \/ Cardinality(Remains') <= peak'
  BY <1>2, <1>4, <1>5, <1>7, <1>8 DEF RegistryInv
<1> QED
  BY <1>1, <1>2, <1>3, <1>4, <1>9 DEF RegistryInv

LEMMA BeginRegisterKeeps ==
  ASSUME RegistryInv, NEW o \in Opens, BeginRegister(o) PROVE RegistryInv'
<1>1. RegistryTypes'
  <2>1. kept' \in SUBSET states'
    BY Zenon DEF BeginRegister, LookThrough
  <2>2. /\ states' = states /\ alive' = alive /\ unregistered' = unregistered
        /\ capacity' = capacity /\ peak' = peak /\ registering' = o
        /\ o \in unregistered /\ o # NoOpen
    BY RegistryAssumption DEF BeginRegister
  <2> QED
    BY <2>1, <2>2 DEF RegistryInv, RegistryTypes
<1>2. /\ states' = states /\ capacity' = capacity /\ alive' = alive /\ peak' = peak
  BY DEF BeginRegister
<1>3. CASE Full
  <2>1. Remains' \in SUBSET alive /\ alive \in SUBSET Opens
    BY <1>3 DEF BeginRegister, LookThrough, Remains, RegistryInv, RegistryTypes
  <2>2. Cardinality(Remains') <= Cardinality(alive)
    BY <2>1, OpensCount
  <2>3. Cardinality(Remains') \in Nat /\ Cardinality(alive) \in Nat
    BY <2>1, OpensCount
  <2>4. Cardinality(Remains') <= peak
    BY <2>2, <2>3 DEF RegistryInv, RegistryTypes
  <2> QED
    BY <1>1, <1>2, <2>4 DEF RegistryInv
<1>4. CASE ~Full
  <2>1. Cardinality(states) \in Nat
    BY OpensCount DEF RegistryInv, RegistryTypes
  <2>2. Cardinality(states) < capacity
    BY <1>4, <2>1 DEF Full, RegistryInv, RegistryTypes
  <2> QED
    BY <1>1, <1>2, <2>2 DEF RegistryInv
<1> QED
  BY <1>3, <1>4

LEMMA RetainKeeps == ASSUME RegistryInv, NEW o \in Opens, Retain(o) PROVE RegistryInv'
<1>1. RegistryTypes' /\ states' \in SUBSET states /\ states \in SUBSET Opens
  BY DEF Retain, RegistryInv, RegistryTypes
<1>2. Remains' = Remains
  BY DEF Retain, Remains, RegistryInv, RegistryTypes
<1>3. Cardinality(states') <= Cardinality(states)
  BY <1>1, OpensCount
<1>4. Cardinality(states') \in Nat /\ Cardinality(states) \in Nat
  BY <1>1, OpensCount
<1>5. capacity' = capacity /\ alive' = alive /\ peak' = peak /\ registering' = registering
  BY DEF Retain
<1> QED
  BY <1>1, <1>2, <1>3, <1>4, <1>5 DEF RegistryInv, RegistryTypes

LEMMA PushKeeps == ASSUME RegistryInv, Push PROVE RegistryInv'
<1>1. registering \in Opens \ states /\ states \in SUBSET Opens /\ registering' = NoOpen
  BY DEF Push, RegistryInv, RegistryTypes
<1>2. capacity \in Nat /\ peak \in Nat /\ capacity' \in Nat /\ capacity <= capacity'
  BY RegistryAssumption DEF Push, Grown, RegistryInv, RegistryTypes
<1>3. RegistryTypes'
  BY <1>1, <1>2, RegistryAssumption DEF Push, RegistryInv, RegistryTypes
<1>4. Cardinality(states) \in Nat /\ Cardinality(states') = Cardinality(states) + 1
  BY <1>1, OpensCount, OpensOneMore DEF Push
<1>5. alive' = alive /\ peak' = peak
  BY DEF Push
<1>6. CASE Full
  <2>1. capacity = Cardinality(states) /\ capacity' = Grown
    BY <1>6 DEF Full, Push
  <2>2. Remains = states'
    BY DEF Push, Remains
  <2>3. capacity + 1 <= peak
    BY <1>2, <1>4, <2>1, <2>2 DEF Push, RegistryInv
  <2>4. capacity + 1 <= capacity' /\ (capacity' <= MIN_CAPACITY \/ capacity' < 2 * peak)
    BY <1>2, <2>1, <2>3, RegistryAssumption DEF Grown
  <2> QED
    BY <1>1, <1>3, <1>4, <1>5, <2>1, <2>4 DEF RegistryInv
<1>7. CASE ~Full
  <2>1. Cardinality(states) + 1 <= capacity /\ capacity' = capacity
    BY <1>2, <1>4, <1>7 DEF Full, Push, RegistryInv
  <2> QED
    BY <1>1, <1>3, <1>4, <1>5, <2>1 DEF RegistryInv
<1> QED
  BY <1>6, <1>7

LEMMA DropOpenKeeps == ASSUME RegistryInv, NEW o \in Opens, DropOpen(o) PROVE RegistryInv'
<1>1. /\ RegistryTypes' /\ alive' \in SUBSET alive /\ alive \in SUBSET Opens
      /\ Remains' \in SUBSET Remains /\ (registering # NoOpen => Remains \in SUBSET Opens)
  BY DEF DropOpen, Remains, RegistryInv, RegistryTypes
<1>2. /\ states' = states /\ capacity' = capacity /\ peak' = peak
      /\ registering' = registering
  BY DEF DropOpen
<1>3. /\ Cardinality(alive') <= Cardinality(alive)
      /\ registering # NoOpen => Cardinality(Remains') <= Cardinality(Remains)
  BY <1>1, OpensCount
<1>4. /\ Cardinality(alive) \in Nat /\ Cardinality(alive') \in Nat
      /\ registering # NoOpen => Cardinality(Remains) \in Nat /\ Cardinality(Remains') \in Nat
  BY <1>1, OpensCount
<1>5. peak \in Nat
  BY DEF RegistryInv, RegistryTypes
<1> QED
  BY <1>1, <1>2, <1>3, <1>4, <1>5 DEF RegistryInv

LEMMA InvalidateAllKeeps == ASSUME RegistryInv, InvalidateAll PROVE RegistryInv'
<1>1. alive \in SUBSET Opens
  BY DEF RegistryInv, RegistryTypes
<1>2. Cardinality(alive) \in Nat
  BY <1>1, OpensCount
<1>3. Cardinality({}) = 0
  BY FS_EmptySet
<1> QED
  BY <1>2, <1>3, RegistryAssumption DEF InvalidateAll, RegistryInv, RegistryTypes

LEMMA RegistryInvStep == RegistryInv /\ [RegistryNext]_registryVars => RegistryInv'
<1> SUFFICES ASSUME RegistryInv, [RegistryNext]_registryVars PROVE RegistryInv'
  OBVIOUS
<1>1. CASE UNCHANGED registryVars
  BY <1>1 DEF registryVars, RegistryInv, RegistryTypes, Remains
<1>2. ASSUME NEW o \in Opens, OpenNew(o) \/ BeginRegister(o) \/ Retain(o) \/ DropOpen(o)
      PROVE  RegistryInv'
  BY <1>2, OpenNewKeeps, BeginRegisterKeeps, RetainKeeps, DropOpenKeeps
<1> QED
  BY <1>1, <1>2, PushKeeps, InvalidateAllKeeps DEF RegistryNext

\* However many files are opened and closed, and whatever is closed while another one
\* is registered: the registry is never twice as large as what was open at once.
THEOREM RegistryIsBounded == RegistrySpec => []RegistryBounded
<1>1. RegistryInv => RegistryBounded
  BY DEF RegistryInv, RegistryBounded
<1> QED
  BY <1>1, InitRegistryInv, RegistryInvStep, PTL DEF RegistrySpec
=============================================================================
