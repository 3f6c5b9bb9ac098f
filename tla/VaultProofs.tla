---------------------------- MODULE VaultProofs ----------------------------
(***************************************************************************)
(* Theorems about Vault.  What a node may rely on at a vault is the        *)
(* conjunction VaultInv: who creates it, what its two files say about each *)
(* other, and what every process that went past it holds in memory and in  *)
(* its database.  None of the three properties of Vault is inductive       *)
(* without it.                                                             *)
(***************************************************************************)
EXTENDS Vault, FiniteSetTheorems, TLAPS

(***************************************************************************)
(* The invariant.                                                          *)
(***************************************************************************)

Stages ==
  {"off", "look", "create", "migrate", "locked", "read", "chain", "online"}

PublicFiles == [kind : {"missing", "torn", "address"}, seed : 0 .. seeds]
SecretFiles == [kind : {"missing", "torn", "raw", "encrypted"}, seed : 0 .. seeds]
Memory == [stage : Stages, vault : Vaults, step : 0 .. 4, seed : 0 .. seeds,
           seeds : [Vaults -> 0 .. seeds], addresses : [Vaults -> PublicFiles]]

Shape ==
  /\ public_key \in [Vaults -> PublicFiles]
  /\ secret_key \in [Vaults -> SecretFiles]
  /\ db \in [Processes -> {<<>>} \cup [Vaults -> PublicFiles]]
  /\ process \in [Processes -> Memory]
  /\ \A p \in Processes :
       /\ process[p].stage = "create" => process[p].step \in 1 .. 4
       /\ process[p].stage = "migrate" => process[p].step \in 1 .. 2
       /\ process[p].stage = "online" => db[p] # <<>>
  /\ seeds \in 0 .. MaxSeeds /\ crashes \in 0 .. MaxCrashes

creating(p, v) == process[p].stage = "create" /\ process[p].vault = v
migrating(p, v) == process[p].stage = "migrate" /\ process[p].vault = v

\* The process has the seed of the vault in memory from this start.
past(p, v) ==
  \/ process[p].stage \in {"read", "chain", "online"}
  \/ /\ process[p].stage \in {"look", "create", "migrate", "locked"}
     /\ v < process[p].vault

\* The process has read the public key file of the vault back.
has_address(p, v) ==
  \/ process[p].stage \in {"chain", "online"}
  \/ process[p].stage = "read" /\ v < process[p].vault

\* Nobody creates the vault any more: both files are there, and the secret one is
\* whole unless somebody is at the second step of a migration or crashed there.
Established(v) ==
  /\ secret_key[v].kind # "missing"
  /\ \A q \in Processes : ~ creating(q, v)
  /\ secret_key[v].kind = "torn" =>
       \/ v \in interrupted
       \/ \E q \in Processes : migrating(q, v) /\ process[q].step = 2

OneCreator(v) ==
  \A p, q \in Processes : creating(p, v) /\ creating(q, v) => p = q

CreatorFiles(v) ==
  \A p \in Processes : creating(p, v) =>
    /\ secret_key[v].kind = IF process[p].step = 4 THEN "torn" ELSE "missing"
    /\ process[p].step >= 3 => public_key[v] = address(process[p].seed)

SecretMatches(v) ==
  secret_key[v].kind \in {"raw", "encrypted"} =>
    public_key[v] = address(secret_key[v].seed)

\* The process has found the seed in the secret file, and goes on with it.
holds(p, v) == process[p].stage \in {"locked", "migrate"} /\ process[p].vault = v

HolderMatches(v) ==
  \A p \in Processes : holds(p, v) =>
    public_key[v] = address(process[p].seed) /\ Established(v)

PastMatches(v) ==
  \A p \in Processes : past(p, v) =>
    public_key[v] = address(process[p].seeds[v]) /\ Established(v)

AddressMatches(v) ==
  \A p \in Processes : has_address(p, v) =>
    process[p].addresses[v] = address(process[p].seeds[v])

GenesisMatches(v) ==
  \A p \in Processes : db[p] # <<>> => db[p][v] = public_key[v] /\ Established(v)

VaultInv(v) ==
  /\ OneCreator(v)
  /\ CreatorFiles(v)
  /\ SecretMatches(v)
  /\ HolderMatches(v)
  /\ PastMatches(v)
  /\ AddressMatches(v)
  /\ GenesisMatches(v)

FilesInv == \A v \in Vaults : v \notin doubled => VaultInv(v)

PoolInv ==
  /\ identity \in [kind : {"missing", "torn", "encrypted"}, seed : 0 .. seeds]
  /\ pool \in [stage : {"off", "create", "write", "online"}, seed : 0 .. seeds]
  /\ pool_seeds \subseteq 1 .. seeds
  /\ identity.kind = "encrypted" =>
       identity.seed \in 1 .. seeds /\ identity = encrypted(identity.seed)
  /\ pool.stage \in {"create", "write"} =>
       pool.seed \in 1 .. seeds /\ identity.kind # "encrypted"
  /\ \/ pool_seeds = {}
     \/ identity.kind = "encrypted" /\ pool_seeds = {identity.seed}

IInv == Shape /\ FilesInv /\ PoolInv

\* The invariant holds at the start.
LEMMA InitIInv == Init => IInv
  <1> SUFFICES ASSUME Init PROVE IInv
    OBVIOUS
  <1> USE VaultAssumption
  <1>0. seeds \in {0, VAULTS} /\ 1 \in Vaults /\ VAULTS \in Nat /\ Vaults \subseteq 1 .. VAULTS
    BY DEF Init, Vaults
  <1>1. Shape
    BY <1>0 DEF Init, Shape, off, missing, address, raw, PublicFiles, SecretFiles, Memory,
           Stages
  <1>2. FilesInv
    <2> SUFFICES ASSUME NEW v \in Vaults PROVE VaultInv(v)
      BY DEF FilesInv
    <2>1. /\ v \in Nat /\ v >= 1
          /\ \A p \in Processes : /\ process[p] = off /\ off.stage = "off"
                                  /\ ~ creating(p, v) /\ ~ holds(p, v)
                                  /\ ~ past(p, v) /\ ~ has_address(p, v)
      BY <1>0 DEF Init, off, creating, holds, past, has_address, Vaults
    <2>2. OneCreator(v) /\ CreatorFiles(v) /\ HolderMatches(v) /\ PastMatches(v)
          /\ AddressMatches(v)
      BY <2>1 DEF OneCreator, CreatorFiles, HolderMatches, PastMatches, AddressMatches
    <2>3. SecretMatches(v) /\ GenesisMatches(v)
      BY <1>0, <2>1 DEF Init, SecretMatches, GenesisMatches, Established, missing, address, raw
    <2> QED
      BY <2>2, <2>3 DEF VaultInv
  <1>3. PoolInv
    BY <1>0 DEF Init, PoolInv, missing
  <1> QED
    BY <1>1, <1>2, <1>3 DEF IInv

(***************************************************************************)
(* One lemma per action.  The files change in WriteFile only, and doubled  *)
(* in Look only.                                                           *)
(***************************************************************************)

\* A process begins its start with nothing in memory.
LEMMA StartKeeps == ASSUME Shape, FilesInv, NEW p \in Processes, Start(p)
                    PROVE  Shape' /\ FilesInv'
  <1> DEFINE next == [off EXCEPT !.stage = "look"]
  <1> USE VaultAssumption
  <1>0. 1 \in Vaults /\ \A v \in Vaults : v \in Nat /\ ~ v < 1
    BY DEF Vaults
  <1>1. /\ process \in [Processes -> Memory] /\ process' = [process EXCEPT ![p] = next]
        /\ process[p].stage = "off" /\ UNCHANGED <<files, db, seeds, crashes, history>>
    BY DEF Start, goes_on, Shape
  <1>2. next \in Memory /\ next.stage = "look" /\ next.vault = 1
    <2>1. next = [stage |-> "look", vault |-> 1, step |-> 0, seed |-> 0,
                  seeds |-> [v \in Vaults |-> 0],
                  addresses |-> [v \in Vaults |-> missing]]
      BY DEF off
    <2>2. 0 \in 0 .. seeds /\ missing \in PublicFiles /\ "look" \in Stages
      BY DEF Shape, missing, PublicFiles, Stages
    <2> QED
      BY <1>0, <2>1, <2>2 DEF Memory
  <1> HIDE DEF next
  <1>3. process'[p] = next /\ \A q \in Processes : q # p => process'[q] = process[q]
    BY <1>1
  <1>4. Shape'
    BY <1>1, <1>2, <1>3 DEF Shape, files, PublicFiles, SecretFiles, Memory
  <1>5. FilesInv'
    <2> SUFFICES ASSUME NEW v \in Vaults, v \notin doubled PROVE VaultInv(v)'
      BY <1>1 DEF FilesInv, history
    <2>1. VaultInv(v) /\ public_key' = public_key /\ secret_key' = secret_key /\ db' = db
          /\ interrupted' = interrupted
      BY <1>1 DEF FilesInv, files, history
    <2>2. \A q \in Processes :
            /\ creating(q, v)' <=> creating(q, v)
            /\ migrating(q, v)' <=> migrating(q, v)
            /\ past(q, v)' <=> past(q, v)
            /\ has_address(q, v)' <=> has_address(q, v)
            /\ process'[q].stage \in {"locked", "migrate"} <=>
                 process[q].stage \in {"locked", "migrate"}
            /\ process[q].stage = "off" \/ process'[q] = process[q]
      BY <1>0, <1>1, <1>2, <1>3 DEF creating, migrating, past, has_address
    <2>3. Established(v) => Established(v)'
      BY <1>2, <1>3, <2>1, <2>2 DEF Established, creating, migrating
    <2> QED
      BY <1>2, <1>3, <2>1, <2>2, <2>3
         DEF VaultInv, OneCreator, CreatorFiles, SecretMatches, HolderMatches, PastMatches,
             AddressMatches, GenesisMatches, creating, holds, past, has_address
  <1> QED
    BY <1>4, <1>5

\* The seed of a locked vault comes into memory with the password.
LEMMA UnlockKeeps == ASSUME Shape, FilesInv, NEW p \in Processes, Unlock(p)
                     PROVE  Shape' /\ FilesInv'
  <1> DEFINE next == unlocked(p)
             at   == process[p].vault
  <1> USE VaultAssumption
  <1>0. \A v \in Vaults : v \in 1 .. VAULTS
    BY DEF Vaults
  <1>1. /\ process \in [Processes -> Memory] /\ process' = [process EXCEPT ![p] = next]
        /\ process[p].stage = "locked" /\ UNCHANGED <<files, db, seeds, crashes, history>>
    BY DEF Unlock, goes_on, Shape
  <1>2. process[p] \in Memory /\ at \in Vaults
    BY <1>1 DEF Memory
  <1>3. /\ next \in Memory /\ next.stage = IF at < VAULTS THEN "look" ELSE "read"
        /\ next.vault = IF at < VAULTS THEN at + 1 ELSE 1
        /\ next.seeds = [process[p].seeds EXCEPT ![at] = process[p].seed]
    <2>1. /\ at \in 1 .. VAULTS /\ process[p].seeds \in [Vaults -> 0 .. seeds]
          /\ process[p].seed \in 0 .. seeds
      BY <1>2 DEF Memory, Vaults
    <2>2. next = [process[p] EXCEPT
                    !.stage = IF at < VAULTS THEN "look" ELSE "read",
                    !.vault = IF at < VAULTS THEN at + 1 ELSE 1,
                    !.seeds = [process[p].seeds EXCEPT ![at] = process[p].seed]]
      BY <1>2 DEF unlocked, Memory
    <2>3. (IF at < VAULTS THEN at + 1 ELSE 1) \in Vaults /\ {"look", "read"} \subseteq Stages
      BY <2>1 DEF Vaults, Stages
    <2>4. [process[p].seeds EXCEPT ![at] = process[p].seed] \in [Vaults -> 0 .. seeds]
      BY <2>1
    <2> QED
      BY <1>2, <2>2, <2>3, <2>4 DEF Memory
  <1> HIDE DEF next
  <1>4. process'[p] = next /\ \A q \in Processes : q # p => process'[q] = process[q]
    BY <1>1
  <1>5. Shape'
    <2>1. process' \in [Processes -> Memory]
      BY <1>1, <1>3
    <2>2. Memory' = Memory /\ PublicFiles' = PublicFiles /\ SecretFiles' = SecretFiles
      BY <1>1 DEF Memory, PublicFiles, SecretFiles
    <2> QED
      BY <1>1, <1>3, <1>4, <2>1, <2>2 DEF Shape, files
  <1>6. FilesInv'
    <2> SUFFICES ASSUME NEW v \in Vaults, v \notin doubled PROVE VaultInv(v)'
      BY <1>1 DEF FilesInv, history
    <2>1. VaultInv(v) /\ public_key' = public_key /\ secret_key' = secret_key /\ db' = db
          /\ interrupted' = interrupted
      BY <1>1 DEF FilesInv, files, history
    <2>2. \A q \in Processes :
            /\ creating(q, v)' <=> creating(q, v)
            /\ migrating(q, v)' <=> migrating(q, v)
            /\ migrating(q, v) => process'[q] = process[q]
      BY <1>1, <1>3, <1>4 DEF creating, migrating
    <2>3. Established(v) => Established(v)'
      BY <2>1, <2>2 DEF Established
    <2>4. past(p, v)' => past(p, v) \/ v = at
      BY <1>0, <1>1, <1>2, <1>3, <1>4 DEF past, Vaults
    <2>5. next.seeds[v] = IF v = at THEN process[p].seed ELSE process[p].seeds[v]
      <3> process[p].seeds \in [Vaults -> 0 .. seeds]
        BY <1>2 DEF Memory
      <3> QED
        BY <1>3
    <2>6. ~ has_address(p, v)' /\ ~ holds(p, v)'
      BY <1>0, <1>3, <1>4 DEF has_address, holds
    <2>7. v = at => holds(p, v)
      BY <1>1 DEF holds
    <2>8. OneCreator(v)' /\ CreatorFiles(v)' /\ SecretMatches(v)'
      BY <1>3, <1>4, <2>1, <2>2 DEF VaultInv, OneCreator, CreatorFiles, SecretMatches, creating
    <2>9. HolderMatches(v)' /\ AddressMatches(v)' /\ GenesisMatches(v)'
      BY <1>4, <2>1, <2>3, <2>6
         DEF VaultInv, HolderMatches, AddressMatches, GenesisMatches, holds, has_address
    <2>10. PastMatches(v)'
      BY <1>4, <2>1, <2>3, <2>4, <2>5, <2>7 DEF VaultInv, PastMatches, HolderMatches, past
    <2> QED
      BY <2>8, <2>9, <2>10 DEF VaultInv
  <1> QED
    BY <1>5, <1>6

\* A process that is off is one, and knows nothing.
LEMMA OffOk == ASSUME Shape
               PROVE  /\ off \in Memory /\ off.stage = "off"
                      /\ off.vault = 1 /\ off.step = 0
  <1>1. off = [stage |-> "off", vault |-> 1, step |-> 0, seed |-> 0,
               seeds |-> [v \in Vaults |-> 0], addresses |-> [v \in Vaults |-> missing]]
    BY DEF off
  <1>2. 0 \in 0 .. seeds /\ missing \in PublicFiles /\ "off" \in Stages /\ 1 \in Vaults
    BY VaultAssumption DEF Shape, missing, PublicFiles, Stages, Vaults
  <1> QED
    BY <1>1, <1>2 DEF Memory

\* What is read back from a public key file is the address of the seed in memory.
LEMMA ReadPublicKeyKeeps == ASSUME Shape, FilesInv, NEW p \in Processes, ReadPublicKey(p)
                            PROVE  Shape' /\ FilesInv'
  <1> DEFINE at   == process[p].vault
             read == [process[p] EXCEPT
                        !.addresses[at] = public_key[at],
                        !.stage = IF at < VAULTS THEN "read" ELSE "chain",
                        !.vault = IF at < VAULTS THEN at + 1 ELSE 1]
             next == IF public_key[at] = missing THEN off ELSE read
  <1> USE VaultAssumption
  <1>0. \A v \in Vaults : v \in 1 .. VAULTS
    BY DEF Vaults
  <1>1. /\ process \in [Processes -> Memory] /\ process' = [process EXCEPT ![p] = next]
        /\ process[p].stage = "read" /\ UNCHANGED <<files, db, seeds, crashes, history>>
    BY DEF ReadPublicKey, goes_on, Shape
  <1>2. process[p] \in Memory /\ at \in Vaults /\ public_key[at] \in PublicFiles
    BY <1>1 DEF Memory, Shape
  <1>3. /\ read \in Memory /\ read.stage = IF at < VAULTS THEN "read" ELSE "chain"
        /\ read.vault = IF at < VAULTS THEN at + 1 ELSE 1
        /\ read.seeds = process[p].seeds
        /\ read.addresses = [process[p].addresses EXCEPT ![at] = public_key[at]]
    <2>1. /\ at \in 1 .. VAULTS
          /\ [process[p].addresses EXCEPT ![at] = public_key[at]] \in [Vaults -> PublicFiles]
      BY <1>2 DEF Memory, Vaults
    <2>2. read = [process[p] EXCEPT
                    !.addresses = [process[p].addresses EXCEPT ![at] = public_key[at]],
                    !.stage = IF at < VAULTS THEN "read" ELSE "chain",
                    !.vault = IF at < VAULTS THEN at + 1 ELSE 1]
      BY <1>2 DEF Memory
    <2>3. (IF at < VAULTS THEN at + 1 ELSE 1) \in Vaults /\ {"read", "chain"} \subseteq Stages
      BY <2>1 DEF Vaults, Stages
    <2> QED
      BY <1>2, <2>1, <2>2, <2>3 DEF Memory
  <1>4. next = off \/ next = read
    OBVIOUS
  <1> HIDE DEF next, read
  <1>5. process'[p] = next /\ \A q \in Processes : q # p => process'[q] = process[q]
    BY <1>1
  <1>6. /\ next \in Memory /\ next.stage \in {"off", "read", "chain"}
        /\ next.stage # "off" => next = read
    BY <1>3, <1>4, OffOk
  <1>7. Shape'
    BY <1>1, <1>5, <1>6 DEF Shape, files, PublicFiles, SecretFiles, Memory
  <1>8. FilesInv'
    <2> SUFFICES ASSUME NEW v \in Vaults, v \notin doubled PROVE VaultInv(v)'
      BY <1>1 DEF FilesInv, history
    <2>1. VaultInv(v) /\ public_key' = public_key /\ secret_key' = secret_key /\ db' = db
          /\ interrupted' = interrupted
      BY <1>1 DEF FilesInv, files, history
    <2>2. \A q \in Processes :
            /\ creating(q, v)' <=> creating(q, v)
            /\ holds(q, v)' <=> holds(q, v)
            /\ migrating(q, v)' <=> migrating(q, v)
            /\ creating(q, v) \/ holds(q, v) => process'[q] = process[q]
            /\ migrating(q, v) => holds(q, v)
      BY <1>1, <1>5, <1>6 DEF creating, migrating, holds
    <2>3. Established(v) => Established(v)'
      BY <2>1, <2>2 DEF Established
    <2>4. past(p, v) /\ (past(p, v)' => next = read)
      BY <1>1, <1>5, <1>6 DEF past
    <2>5. has_address(p, v)' => next = read /\ (has_address(p, v) \/ v = at)
      BY <1>0, <1>1, <1>2, <1>3, <1>5, <1>6 DEF has_address
    <2>6. read.addresses[v] = IF v = at THEN public_key[at] ELSE process[p].addresses[v]
      <3> process[p].addresses \in [Vaults -> PublicFiles]
        BY <1>2 DEF Memory
      <3> QED
        BY <1>3
    <2>7. OneCreator(v)' /\ CreatorFiles(v)' /\ SecretMatches(v)'
      BY <2>1, <2>2 DEF VaultInv, OneCreator, CreatorFiles, SecretMatches
    <2>8. HolderMatches(v)' /\ GenesisMatches(v)'
      BY <2>1, <2>2, <2>3 DEF VaultInv, HolderMatches, GenesisMatches
    <2>9. PastMatches(v)'
      BY <1>3, <1>5, <2>1, <2>3, <2>4 DEF VaultInv, PastMatches, past
    <2>10. AddressMatches(v)'
      <3>1. public_key[v] = address(process[p].seeds[v])
        BY <2>1, <2>4 DEF VaultInv, PastMatches
      <3>2. ASSUME has_address(p, v)'
            PROVE  next.addresses[v] = address(next.seeds[v])
        <4>1. next = read /\ (has_address(p, v) \/ v = at) /\ next.seeds = process[p].seeds
          BY <1>3, <2>5, <3>2
        <4>2. CASE v = at
          BY <2>6, <3>1, <4>1, <4>2
        <4>3. CASE v # at
          BY <2>1, <2>6, <4>1, <4>3 DEF VaultInv, AddressMatches
        <4> QED
          BY <4>2, <4>3
      <3>3. ASSUME NEW q \in Processes, q # p, has_address(q, v)'
            PROVE  process[q].addresses[v] = address(process[q].seeds[v])
        BY <1>5, <2>1, <3>3 DEF VaultInv, AddressMatches, has_address
      <3> QED
        BY <1>5, <3>2, <3>3 DEF AddressMatches
    <2> QED
      BY <2>7, <2>8, <2>9, <2>10 DEF VaultInv
  <1> QED
    BY <1>7, <1>8

\* Genesis, if it is made, allocates to the addresses just read.
LEMMA LoadChainKeeps == ASSUME Shape, FilesInv, NEW p \in Processes, LoadChain(p)
                        PROVE  Shape' /\ FilesInv'
  <1> DEFINE next == [process[p] EXCEPT !.stage = "online"]
             made == IF db[p] = <<>> THEN process[p].addresses ELSE db[p]
  <1> USE VaultAssumption
  <1>1. /\ process \in [Processes -> Memory] /\ process' = [process EXCEPT ![p] = next]
        /\ process[p].stage = "chain" /\ UNCHANGED <<files, seeds, crashes, history>>
        /\ db' = [db EXCEPT ![p] = made]
    BY DEF LoadChain, goes_on, Shape
  <1>2. process[p] \in Memory
    BY <1>1
  <1>3. /\ next \in Memory /\ next.stage = "online" /\ next.vault = process[p].vault
        /\ next.seeds = process[p].seeds /\ next.addresses = process[p].addresses
    BY <1>2 DEF Memory, Stages
  <1>4. /\ process[p].addresses \in [Vaults -> PublicFiles]
        /\ process[p].addresses # <<>>
    <2>1. process[p].addresses \in [Vaults -> PublicFiles] /\ 1 \in Vaults
      BY <1>2 DEF Memory, Vaults
    <2>2. DOMAIN process[p].addresses = Vaults /\ DOMAIN <<>> = {}
      BY <2>1
    <2> QED
      BY <2>1, <2>2
  <1>5. db \in [Processes -> {<<>>} \cup [Vaults -> PublicFiles]]
    BY DEF Shape
  <1>6. made # <<>> /\ made \in [Vaults -> PublicFiles]
    BY <1>4, <1>5
  <1> HIDE DEF next
  <1>7. /\ process'[p] = next /\ \A q \in Processes : q # p => process'[q] = process[q]
        /\ db'[p] = made /\ \A q \in Processes : q # p => db'[q] = db[q]
    BY <1>1, <1>5
  <1>8. Shape'
    <2>1. db' \in [Processes -> {<<>>} \cup [Vaults -> PublicFiles]]
      BY <1>1, <1>5, <1>6
    <2>2. process' \in [Processes -> Memory]
      BY <1>1, <1>3
    <2>3. Memory' = Memory /\ PublicFiles' = PublicFiles /\ SecretFiles' = SecretFiles
      BY <1>1 DEF Memory, PublicFiles, SecretFiles
    <2> QED
      BY <1>1, <1>3, <1>6, <1>7, <2>1, <2>2, <2>3 DEF Shape, files
  <1>9. FilesInv'
    <2> SUFFICES ASSUME NEW v \in Vaults, v \notin doubled PROVE VaultInv(v)'
      BY <1>1 DEF FilesInv, history
    <2>1. VaultInv(v) /\ public_key' = public_key /\ secret_key' = secret_key
          /\ interrupted' = interrupted
      BY <1>1 DEF FilesInv, files, history
    <2>2. \A q \in Processes :
            /\ creating(q, v)' <=> creating(q, v)
            /\ holds(q, v)' <=> holds(q, v)
            /\ migrating(q, v)' <=> migrating(q, v)
            /\ creating(q, v) \/ holds(q, v) => process'[q] = process[q]
            /\ migrating(q, v) => holds(q, v)
      BY <1>1, <1>3, <1>7 DEF creating, migrating, holds
    <2>3. Established(v) => Established(v)'
      BY <2>1, <2>2 DEF Established
    <2>4. past(p, v) /\ has_address(p, v)
      BY <1>1 DEF past, has_address
    <2>5. OneCreator(v)' /\ CreatorFiles(v)' /\ SecretMatches(v)' /\ HolderMatches(v)'
      BY <2>1, <2>2, <2>3
         DEF VaultInv, OneCreator, CreatorFiles, SecretMatches, HolderMatches
    <2>6. PastMatches(v)' /\ AddressMatches(v)'
      BY <1>3, <1>7, <2>1, <2>3, <2>4
         DEF VaultInv, PastMatches, AddressMatches, past, has_address
    <2>7. GenesisMatches(v)'
      <3>1. /\ process[p].addresses[v] = address(process[p].seeds[v])
            /\ public_key[v] = address(process[p].seeds[v]) /\ Established(v)
        BY <2>1, <2>4 DEF VaultInv, PastMatches, AddressMatches
      <3>2. made[v] = public_key[v]
        BY <2>1, <3>1 DEF VaultInv, GenesisMatches
      <3> QED
        BY <1>7, <2>1, <2>3, <3>1, <3>2 DEF VaultInv, GenesisMatches
    <2> QED
      BY <2>5, <2>6, <2>7 DEF VaultInv
  <1> QED
    BY <1>8, <1>9

\* A crash at the second step of a migration is remembered; any other leaves whole
\* files, or somebody else at work on them.
LEMMA CrashKeeps == ASSUME Shape, FilesInv, NEW p \in Processes, Crash(p)
                    PROVE  Shape' /\ FilesInv'
  <1> USE VaultAssumption
  <1>1. /\ process \in [Processes -> Memory] /\ process' = [process EXCEPT ![p] = off]
        /\ UNCHANGED <<files, db, seeds, doubled>>
        /\ crashes' \in 0 .. MaxCrashes
        /\ interrupted' = IF process[p].stage = "migrate" /\ process[p].step = 2
                          THEN interrupted \cup {process[p].vault} ELSE interrupted
    BY DEF Crash, goes_on, Shape
  <1>2. /\ off \in Memory /\ off.stage = "off"
        /\ process'[p] = off /\ \A q \in Processes : q # p => process'[q] = process[q]
    BY <1>1, OffOk
  <1>3. Shape'
    BY <1>1, <1>2 DEF Shape, files, PublicFiles, SecretFiles, Memory
  <1>4. FilesInv'
    <2> SUFFICES ASSUME NEW v \in Vaults, v \notin doubled PROVE VaultInv(v)'
      BY <1>1 DEF FilesInv
    <2>1. VaultInv(v) /\ public_key' = public_key /\ secret_key' = secret_key /\ db' = db
      BY <1>1 DEF FilesInv, files
    <2>2. \A q \in Processes :
            /\ creating(q, v)' => creating(q, v)
            /\ holds(q, v)' => holds(q, v)
            /\ past(q, v)' => past(q, v)
            /\ has_address(q, v)' => has_address(q, v)
            /\ q # p /\ migrating(q, v) => migrating(q, v)'
            /\ process'[q] = process[q] \/ process'[q].stage = "off"
      BY <1>2 DEF creating, migrating, holds, past, has_address
    <2>3. ASSUME Established(v) PROVE Established(v)'
      <3>1. \A q \in Processes : ~ creating(q, v)'
        BY <2>2, <2>3 DEF Established
      <3>2. ASSUME secret_key[v].kind = "torn"
            PROVE  \/ v \in interrupted'
                   \/ \E q \in Processes : migrating(q, v)' /\ process'[q].step = 2
        <4>1. CASE v \in interrupted
          BY <1>1, <4>1
        <4>2. ASSUME NEW q \in Processes, migrating(q, v), process[q].step = 2
              PROVE  \/ v \in interrupted'
                     \/ \E r \in Processes : migrating(r, v)' /\ process'[r].step = 2
          <5>1. CASE q = p
            BY <1>1, <4>2, <5>1 DEF migrating
          <5>2. CASE q # p
            BY <1>2, <2>2, <4>2, <5>2
          <5> QED
            BY <5>1, <5>2
        <4> QED
          BY <2>3, <3>2, <4>1, <4>2 DEF Established
      <3> QED
        BY <2>1, <2>3, <3>1, <3>2 DEF Established
    <2>4. OneCreator(v)' /\ CreatorFiles(v)' /\ SecretMatches(v)'
      BY <2>1, <2>2 DEF VaultInv, OneCreator, CreatorFiles, SecretMatches, creating
    <2>5. HolderMatches(v)' /\ PastMatches(v)' /\ AddressMatches(v)' /\ GenesisMatches(v)'
      BY <2>1, <2>2, <2>3
         DEF VaultInv, HolderMatches, PastMatches, AddressMatches, GenesisMatches,
             holds, past, has_address
    <2> QED
      BY <2>4, <2>5 DEF VaultInv
  <1> QED
    BY <1>3, <1>4

\* A larger number of drawn seeds leaves every file and process well formed.
LEMMA MoreSeeds == ASSUME Shape, seeds' = seeds + 1
                   PROVE  /\ PublicFiles \subseteq PublicFiles'
                          /\ SecretFiles \subseteq SecretFiles'
                          /\ Memory \subseteq Memory'
  <1>1. 0 .. seeds \subseteq 0 .. seeds'
    BY VaultAssumption DEF Shape
  <1>2. PublicFiles \subseteq PublicFiles' /\ SecretFiles \subseteq SecretFiles'
    BY <1>1 DEF PublicFiles, SecretFiles
  <1>3. /\ [Vaults -> 0 .. seeds] \subseteq [Vaults -> 0 .. seeds']
        /\ [Vaults -> PublicFiles] \subseteq [Vaults -> PublicFiles']
    BY <1>1, <1>2
  <1> QED
    BY <1>1, <1>2, <1>3 DEF Memory

\* A vault is created where the secret file is missing, which is never the case of an
\* established one; otherwise the seed of the secret file is held.
LEMMA LookKeeps == ASSUME Shape, FilesInv, NEW p \in Processes, Look(p)
                   PROVE  Shape' /\ FilesInv'
  <1> DEFINE at   == process[p].vault
             file == secret_key[at]
             next == process'[p]
  <1> USE VaultAssumption
  <1>0. \A v \in Vaults : v \in 1 .. VAULTS
    BY DEF Vaults
  <1>1. /\ process \in [Processes -> Memory] /\ process[p] \in Memory /\ at \in Vaults
        /\ file \in SecretFiles /\ seeds \in 0 .. MaxSeeds
        /\ process[p].stage = "look" /\ UNCHANGED <<files, db, crashes, interrupted>>
    BY DEF Look, Shape, Memory
  <1>2. \/ /\ file.kind = "missing" /\ seeds < MaxSeeds /\ seeds' = seeds + 1
           /\ process' = [process EXCEPT ![p] =
                [process[p] EXCEPT !.stage = "create", !.step = 1, !.seed = seeds + 1]]
           /\ doubled' = IF being_created(at) THEN doubled \cup {at} ELSE doubled
        \/ /\ file.kind \in {"encrypted", "raw"} /\ UNCHANGED <<seeds, doubled>>
           /\ process' = [process EXCEPT ![p] =
                [process[p] EXCEPT
                   !.stage = IF file.kind = "raw" THEN "migrate" ELSE "locked",
                   !.step = 1, !.seed = file.seed]]
        \/ /\ UNCHANGED <<seeds, doubled>> /\ process' = [process EXCEPT ![p] = off]
    BY DEF Look, goes_on, held, missing
  <1>3. \A q \in Processes : q # p => process'[q] = process[q]
    BY <1>1, <1>2
  <1>4. /\ PublicFiles \subseteq PublicFiles' /\ SecretFiles \subseteq SecretFiles'
        /\ Memory \subseteq Memory' /\ seeds' \in 0 .. MaxSeeds
        /\ 0 .. seeds \subseteq 0 .. seeds'
    <2>1. CASE seeds' = seeds
      BY <1>1, <2>1 DEF PublicFiles, SecretFiles, Memory
    <2>2. CASE seeds' = seeds + 1
      BY <1>1, <1>2, <2>2, MoreSeeds
    <2> QED
      BY <1>2, <2>1, <2>2
  <1>5. /\ next \in Memory' /\ next.vault = IF next.stage = "off" THEN 1 ELSE at
        /\ \/ /\ next.stage = "create" /\ next.step = 1 /\ file.kind = "missing"
              /\ doubled' = IF being_created(at) THEN doubled \cup {at} ELSE doubled
           \/ /\ next.stage \in {"locked", "migrate"} /\ next.step = 1
              /\ file.kind \in {"encrypted", "raw"} /\ next.seed = file.seed
              /\ doubled' = doubled
           \/ next.stage = "off" /\ doubled' = doubled
        /\ next.stage # "off" => next.seeds = process[p].seeds
    <2>1. file.seed \in 0 .. seeds
      BY <1>1 DEF SecretFiles
    <2>2. CASE seeds' = seeds + 1 /\ file.kind = "missing"
               /\ process' = [process EXCEPT ![p] =
                    [process[p] EXCEPT !.stage = "create", !.step = 1, !.seed = seeds + 1]]
               /\ doubled' = IF being_created(at) THEN doubled \cup {at} ELSE doubled
      <3>1. next = [process[p] EXCEPT !.stage = "create", !.step = 1, !.seed = seeds + 1]
        BY <1>1, <2>2
      <3>2. seeds + 1 \in 0 .. seeds' /\ 1 \in 0 .. 4 /\ "create" \in Stages
        BY <1>1, <2>2 DEF Stages
      <3>3. process[p] \in Memory'
        BY <1>1, <1>4
      <3>4. next \in Memory'
        BY <3>1, <3>2, <3>3 DEF Memory
      <3> QED
        BY <1>1, <2>2, <3>1, <3>4 DEF Memory
    <2>3. CASE file.kind \in {"encrypted", "raw"} /\ UNCHANGED <<seeds, doubled>>
               /\ process' = [process EXCEPT ![p] =
                    [process[p] EXCEPT
                       !.stage = IF file.kind = "raw" THEN "migrate" ELSE "locked",
                       !.step = 1, !.seed = file.seed]]
      <3>1. next = [process[p] EXCEPT
                      !.stage = IF file.kind = "raw" THEN "migrate" ELSE "locked",
                      !.step = 1, !.seed = file.seed]
        BY <1>1, <2>3
      <3>2. 1 \in 0 .. 4 /\ {"migrate", "locked"} \subseteq Stages
        BY DEF Stages
      <3>3. process[p] \in Memory' /\ file.seed \in 0 .. seeds'
        BY <1>1, <1>4, <2>1
      <3>4. next \in Memory'
        BY <3>1, <3>2, <3>3 DEF Memory
      <3> QED
        BY <1>1, <2>3, <3>1, <3>4 DEF Memory
    <2>4. CASE UNCHANGED <<seeds, doubled>> /\ process' = [process EXCEPT ![p] = off]
      BY <1>1, <1>4, <2>4, OffOk
    <2> QED
      BY <1>2, <2>2, <2>3, <2>4
  <1> HIDE DEF next
  <1>6. process'[p] = next
    BY DEF next
  <1>7. Shape'
    <2>1. process' \in [Processes -> Memory']
      <3>1. process' = [q \in Processes |-> process'[q]]
        BY <1>1, <1>2
      <3> QED
        BY <1>1, <1>3, <1>4, <1>5, <1>6, <3>1
    <2>2. /\ public_key' \in [Vaults -> PublicFiles'] /\ secret_key' \in [Vaults -> SecretFiles']
          /\ db' \in [Processes -> {<<>>} \cup [Vaults -> PublicFiles']]
      <3>1. [Vaults -> PublicFiles] \subseteq [Vaults -> PublicFiles']
        BY <1>4
      <3> QED
        BY <1>1, <1>4, <3>1 DEF Shape, files
    <2>3. crashes' \in 0 .. MaxCrashes
      BY <1>1 DEF Shape
    <2>4. \A q \in Processes :
            /\ process'[q].stage = "create" => process'[q].step \in 1 .. 4
            /\ process'[q].stage = "migrate" => process'[q].step \in 1 .. 2
            /\ process'[q].stage = "online" => db'[q] # <<>>
      BY <1>1, <1>3, <1>5, <1>6 DEF Shape
    <2> QED
      BY <1>4, <2>1, <2>2, <2>3, <2>4 DEF Shape
  <1>8. FilesInv'
    <2> SUFFICES ASSUME NEW v \in Vaults, v \notin doubled' PROVE VaultInv(v)'
      BY DEF FilesInv
    <2>1. VaultInv(v) /\ public_key' = public_key /\ secret_key' = secret_key /\ db' = db
          /\ interrupted' = interrupted
      BY <1>1, <1>5 DEF FilesInv, files
    <2>2. \A q \in Processes : q # p =>
            /\ creating(q, v)' <=> creating(q, v)
            /\ holds(q, v)' <=> holds(q, v)
            /\ past(q, v)' <=> past(q, v)
            /\ has_address(q, v)' <=> has_address(q, v)
            /\ migrating(q, v)' <=> migrating(q, v)
      BY <1>3 DEF creating, holds, past, has_address, migrating
    <2>3. ~ migrating(p, v) /\ ~ creating(p, v)
      BY <1>1 DEF migrating, creating
    <2>4. creating(p, v)' => v = at /\ next.step = 1 /\ file.kind = "missing"
                             /\ \A q \in Processes : ~ creating(q, v)
      BY <1>5, <1>6 DEF creating, being_created
    <2>5. ASSUME Established(v) PROVE Established(v)'
      <3>1. \A q \in Processes : ~ creating(q, v)'
        BY <2>2, <2>4, <2>5 DEF Established
      <3>2. ASSUME NEW q \in Processes, migrating(q, v), process[q].step = 2
            PROVE  migrating(q, v)' /\ process'[q].step = 2
        BY <1>3, <2>2, <2>3, <3>2
      <3> QED
        BY <2>1, <2>5, <3>1, <3>2 DEF Established
    <2>6. holds(p, v)' => v = at /\ file.kind \in {"encrypted", "raw"} /\ next.seed = file.seed
      BY <1>5, <1>6 DEF holds
    <2>7. past(p, v)' => past(p, v) /\ next.seeds = process[p].seeds
      BY <1>1, <1>5, <1>6 DEF past
    <2>8. ~ has_address(p, v)'
      BY <1>5, <1>6 DEF has_address
    <2>9. OneCreator(v)'
      BY <2>1, <2>2, <2>4 DEF VaultInv, OneCreator
    <2>10. CreatorFiles(v)'
      BY <1>3, <1>6, <2>1, <2>2, <2>4 DEF VaultInv, CreatorFiles
    <2>11. SecretMatches(v)' /\ AddressMatches(v)' /\ GenesisMatches(v)'
      BY <1>3, <2>1, <2>2, <2>5, <2>8
         DEF VaultInv, SecretMatches, AddressMatches, GenesisMatches
    <2>12. PastMatches(v)'
      BY <1>3, <1>6, <2>1, <2>2, <2>5, <2>7 DEF VaultInv, PastMatches
    <2>13. HolderMatches(v)'
      <3>1. ASSUME holds(p, v)'
            PROVE  public_key'[v] = address(next.seed) /\ Established(v)'
        <4>1. /\ v = at /\ file.kind \in {"encrypted", "raw"} /\ next.seed = file.seed
              /\ public_key[v] = address(file.seed)
          BY <2>1, <2>6, <3>1 DEF VaultInv, SecretMatches
        <4>2. Established(v)
          BY <2>1, <4>1 DEF VaultInv, CreatorFiles, Established
        <4> QED
          BY <2>1, <2>5, <4>1, <4>2
      <3> QED
        BY <1>3, <1>6, <2>1, <2>2, <2>5, <3>1 DEF VaultInv, HolderMatches
    <2> QED
      BY <2>9, <2>10, <2>11, <2>12, <2>13 DEF VaultInv
  <1> QED
    BY <1>7, <1>8

\* What a write does, told by the stage and the step: the state of a file after it,
\* and where the process goes on.
LEMMA WriteFileSteps ==
  ASSUME Shape, NEW p \in Processes, WriteFile(p)
  PROVE  LET at   == process[p].vault
             step == process[p].step
             seed == process[p].seed
             last == step = IF process[p].stage = "migrate" THEN 2 ELSE 4
         IN  /\ at \in Vaults /\ seed \in 0 .. seeds
             /\ process[p].stage \in {"create", "migrate"}
             /\ step \in 1 .. 4
             /\ process[p].stage = "migrate" => step \in 1 .. 2
             /\ public_key' =
                  IF process[p].stage = "migrate" \/ step \in 3 .. 4 THEN public_key
                  ELSE [public_key EXCEPT ![at] = IF step = 1 THEN torn ELSE address(seed)]
             /\ secret_key' =
                  IF process[p].stage = "create" /\ step \in 1 .. 2 THEN secret_key
                  ELSE [secret_key EXCEPT
                          ![at] = IF step \in {1, 3} THEN torn ELSE encrypted(seed)]
             /\ process' = [process EXCEPT ![p] =
                  IF last THEN unlocked(p) ELSE [process[p] EXCEPT !.step = step + 1]]
             /\ UNCHANGED <<db, seeds, crashes, history>>
  <1> DEFINE step == process[p].step
  <1>1. /\ process[p] \in Memory /\ process[p].stage \in {"create", "migrate"}
        /\ process[p].vault \in Vaults /\ process[p].seed \in 0 .. seeds
        /\ process[p].stage = "create" => step \in 1 .. 4
        /\ process[p].stage = "migrate" => step \in 1 .. 2
    BY DEF WriteFile, Shape, Memory
  <1>2. CASE process[p].stage = "migrate"
    <2>0. step \in {1, 2} /\ (1 + 1) \div 2 = 1 /\ (2 + 1) \div 2 = 1 /\ 1 % 2 = 1 /\ 2 % 2 = 0
      BY <1>1, <1>2
    <2>1. <<"secret">>[(step + 1) \div 2] = "secret" /\ (step % 2 = 0 <=> step = 2)
      BY <2>0
    <2>2. /\ public_key' = public_key
          /\ secret_key' = [secret_key EXCEPT ![process[p].vault] =
               IF step \in {1, 3} THEN torn ELSE encrypted(process[p].seed)]
      BY <1>2, <2>0, <2>1 DEF WriteFile
    <2>3. process' = [process EXCEPT ![p] =
            IF step = 2 THEN unlocked(p) ELSE [process[p] EXCEPT !.step = step + 1]]
      BY <1>2 DEF WriteFile, goes_on
    <2>4. UNCHANGED <<db, seeds, crashes, history>>
      BY DEF WriteFile
    <2>5. ~ (process[p].stage = "create" /\ step \in 1 .. 2) /\ step \in 1 .. 4
      BY <1>2, <2>0
    <2> QED
      BY <1>1, <1>2, <2>2, <2>3, <2>4, <2>5
  <1>3. CASE process[p].stage = "create"
    <2>0. /\ step \in {1, 2, 3, 4} /\ (1 + 1) \div 2 = 1 /\ (2 + 1) \div 2 = 1
          /\ (3 + 1) \div 2 = 2 /\ (4 + 1) \div 2 = 2
          /\ 1 % 2 = 1 /\ 2 % 2 = 0 /\ 3 % 2 = 1 /\ 4 % 2 = 0
      BY <1>1, <1>3
    <2>1. created_files[(step + 1) \div 2] = IF step \in 1 .. 2 THEN "public" ELSE "secret"
      BY <2>0 DEF created_files
    <2>2. step % 2 = 0 <=> step \in {2, 4}
      BY <2>0
    <2> QED
      BY <1>1, <1>3, <2>1, <2>2 DEF WriteFile, goes_on
  <1> QED
    BY <1>1, <1>2, <1>3

\* The secret file is only written by the one who creates the vault, after the public
\* one, or by those who migrate it, who hold the seed it had.
LEMMA WriteFileKeeps == ASSUME Shape, FilesInv, NEW p \in Processes, WriteFile(p)
                        PROVE  Shape' /\ FilesInv'
  <1> DEFINE at   == process[p].vault
             step == process[p].step
             seed == process[p].seed
             last == step = IF process[p].stage = "migrate" THEN 2 ELSE 4
             next == IF last THEN unlocked(p) ELSE [process[p] EXCEPT !.step = step + 1]
  <1> USE VaultAssumption
  <1>0. \A v \in Vaults : v \in 1 .. VAULTS
    BY DEF Vaults
  <1>1. /\ at \in Vaults /\ seed \in 0 .. seeds
        /\ process[p].stage \in {"create", "migrate"}
        /\ step \in 1 .. 4
        /\ process[p].stage = "migrate" => step \in 1 .. 2
        /\ public_key' =
             IF process[p].stage = "migrate" \/ step \in 3 .. 4 THEN public_key
             ELSE [public_key EXCEPT ![at] = IF step = 1 THEN torn ELSE address(seed)]
        /\ secret_key' =
             IF process[p].stage = "create" /\ step \in 1 .. 2 THEN secret_key
             ELSE [secret_key EXCEPT ![at] = IF step \in {1, 3} THEN torn ELSE encrypted(seed)]
        /\ process' = [process EXCEPT ![p] = next]
        /\ UNCHANGED <<db, seeds, crashes, history>>
    BY WriteFileSteps
  <1>2. /\ process \in [Processes -> Memory] /\ process[p] \in Memory
        /\ public_key \in [Vaults -> PublicFiles] /\ secret_key \in [Vaults -> SecretFiles]
    BY DEF Shape
  <1>3. /\ next \in Memory
        /\ last => /\ next.stage = IF at < VAULTS THEN "look" ELSE "read"
                   /\ next.vault = IF at < VAULTS THEN at + 1 ELSE 1
                   /\ next.seeds = [process[p].seeds EXCEPT ![at] = seed]
        /\ ~ last => /\ next.stage = process[p].stage /\ next.vault = at
                     /\ next.seed = seed /\ next.seeds = process[p].seeds
                     /\ next.step = step + 1
    <2>1. CASE last
      <3>1. at \in 1 .. VAULTS /\ process[p].seeds \in [Vaults -> 0 .. seeds]
        BY <1>0, <1>1, <1>2 DEF Memory
      <3>2. next = [process[p] EXCEPT
                      !.stage = IF at < VAULTS THEN "look" ELSE "read",
                      !.vault = IF at < VAULTS THEN at + 1 ELSE 1,
                      !.seeds = [process[p].seeds EXCEPT ![at] = seed]]
        BY <1>2, <2>1 DEF unlocked, Memory
      <3>3. /\ (IF at < VAULTS THEN at + 1 ELSE 1) \in Vaults /\ {"look", "read"} \subseteq Stages
            /\ [process[p].seeds EXCEPT ![at] = seed] \in [Vaults -> 0 .. seeds]
        BY <1>1, <3>1 DEF Vaults, Stages
      <3> QED
        BY <1>2, <2>1, <3>2, <3>3 DEF Memory
    <2>2. CASE ~ last
      <3>1. next = [process[p] EXCEPT !.step = step + 1] /\ step + 1 \in 0 .. 4
        BY <1>1, <2>2
      <3> QED
        BY <1>2, <2>2, <3>1 DEF Memory
    <2> QED
      BY <2>1, <2>2
  <1>4. step \in {1, 2, 3} \/ step = 4
    BY <1>1
  <1> HIDE DEF next
  <1>5. process'[p] = next /\ \A q \in Processes : q # p => process'[q] = process[q]
    BY <1>1, <1>2
  <1>6. /\ public_key'[at] = IF process[p].stage = "migrate" \/ step \in 3 .. 4
                              THEN public_key[at]
                              ELSE IF step = 1 THEN torn ELSE address(seed)
        /\ secret_key'[at] = IF process[p].stage = "create" /\ step \in 1 .. 2
                              THEN secret_key[at]
                              ELSE IF step \in {1, 3} THEN torn ELSE encrypted(seed)
        /\ \A v \in Vaults : v # at => /\ public_key'[v] = public_key[v]
                                       /\ secret_key'[v] = secret_key[v]
    BY <1>1, <1>2
  <1>7. Shape'
    <2>1. torn \in PublicFiles /\ torn \in SecretFiles /\ address(seed) \in PublicFiles
          /\ encrypted(seed) \in SecretFiles
      BY <1>1 DEF torn, address, encrypted, PublicFiles, SecretFiles, Shape
    <2>2. public_key' \in [Vaults -> PublicFiles] /\ secret_key' \in [Vaults -> SecretFiles]
      BY <1>1, <1>2, <2>1
    <2>3. process' \in [Processes -> Memory]
      BY <1>1, <1>2, <1>3
    <2>4. \A q \in Processes :
            /\ process'[q].stage = "create" => process'[q].step \in 1 .. 4
            /\ process'[q].stage = "migrate" => process'[q].step \in 1 .. 2
            /\ process'[q].stage = "online" => db'[q] # <<>>
      BY <1>1, <1>3, <1>5 DEF Shape
    <2> QED
      BY <1>1, <2>2, <2>3, <2>4 DEF Shape, PublicFiles, SecretFiles, Memory
  <1>8. FilesInv'
    <2> SUFFICES ASSUME NEW v \in Vaults, v \notin doubled PROVE VaultInv(v)'
      BY <1>1 DEF FilesInv, history
    <2>1. VaultInv(v) /\ db' = db /\ interrupted' = interrupted
      BY <1>1 DEF FilesInv, history
    <2>2. \A q \in Processes : q # p =>
            /\ creating(q, v)' <=> creating(q, v)
            /\ holds(q, v)' <=> holds(q, v)
            /\ past(q, v)' <=> past(q, v)
            /\ has_address(q, v)' <=> has_address(q, v)
            /\ migrating(q, v)' <=> migrating(q, v)
      BY <1>5 DEF creating, holds, past, has_address, migrating
    <2>3. ~ has_address(p, v)'
      BY <1>0, <1>1, <1>3, <1>5 DEF has_address
    <2>4. /\ past(p, v)' => past(p, v) \/ (last /\ v = at)
          /\ next.seeds[v] = IF last /\ v = at THEN seed ELSE process[p].seeds[v]
      <3>1. process[p].seeds \in [Vaults -> 0 .. seeds]
        BY <1>2 DEF Memory
      <3>2. next.seeds[v] = IF last /\ v = at THEN seed ELSE process[p].seeds[v]
        BY <1>3, <3>1
      <3> QED
        BY <1>0, <1>1, <1>3, <1>5, <3>2 DEF past
    <2>5. /\ creating(p, v)' <=> creating(p, v) /\ ~ last
          /\ migrating(p, v)' <=> migrating(p, v) /\ ~ last
          /\ holds(p, v)' <=> migrating(p, v) /\ ~ last
      BY <1>1, <1>3, <1>5 DEF creating, migrating, holds
    <2>6. CASE v # at
      <3>1. /\ public_key'[v] = public_key[v] /\ secret_key'[v] = secret_key[v]
            /\ ~ creating(p, v) /\ ~ migrating(p, v)
        BY <1>6, <2>6 DEF creating, migrating
      <3>2. Established(v) => Established(v)'
        BY <1>5, <2>1, <2>2, <2>5, <3>1 DEF Established
      <3>3. OneCreator(v)' /\ CreatorFiles(v)' /\ SecretMatches(v)'
        BY <1>5, <2>1, <2>2, <2>5, <3>1 DEF VaultInv, OneCreator, CreatorFiles, SecretMatches
      <3>4. HolderMatches(v)' /\ AddressMatches(v)' /\ GenesisMatches(v)'
        BY <1>5, <2>1, <2>2, <2>3, <2>5, <3>1, <3>2
           DEF VaultInv, HolderMatches, AddressMatches, GenesisMatches
      <3>5. PastMatches(v)'
        BY <1>5, <2>1, <2>2, <2>4, <2>6, <3>1, <3>2 DEF VaultInv, PastMatches
      <3> QED
        BY <3>3, <3>4, <3>5 DEF VaultInv
    <2>7. CASE v = at /\ process[p].stage = "create"
      <3>1. /\ creating(p, v) /\ \A q \in Processes : creating(q, v) => q = p
            /\ secret_key[v].kind = IF step = 4 THEN "torn" ELSE "missing"
            /\ step >= 3 => public_key[v] = address(seed)
        BY <2>1, <2>7 DEF VaultInv, OneCreator, CreatorFiles, creating
      <3>2. ~ Established(v)
        BY <3>1 DEF Established
      <3>3. \A q \in Processes : ~ holds(q, v) /\ ~ past(q, v) /\ db[q] = <<>>
        BY <2>1, <3>2 DEF VaultInv, HolderMatches, PastMatches, GenesisMatches
      <3>4. \A q \in Processes : ~ migrating(q, v)
        BY <3>3 DEF holds, migrating
      <3>5. OneCreator(v)'
        BY <2>1, <2>2, <2>5 DEF VaultInv, OneCreator
      <3>6. AddressMatches(v)'
        BY <1>5, <2>1, <2>2, <2>3 DEF VaultInv, AddressMatches
      <3>7. HolderMatches(v)' /\ GenesisMatches(v)'
        BY <2>1, <2>2, <2>5, <3>3, <3>4 DEF HolderMatches, GenesisMatches
      <3>8. CASE step = 4
        <4>1. public_key'[v] = address(seed) /\ secret_key'[v] = encrypted(seed)
          BY <1>6, <2>7, <3>1, <3>8
        <4>2. \A q \in Processes : ~ creating(q, v)'
          BY <2>2, <2>5, <2>7, <3>1, <3>8
        <4>3. Established(v)'
          BY <4>1, <4>2 DEF Established, encrypted
        <4>4. PastMatches(v)'
          BY <1>5, <2>2, <2>4, <3>3, <4>1, <4>3 DEF PastMatches
        <4>5. CreatorFiles(v)' /\ SecretMatches(v)'
          BY <4>1, <4>2 DEF CreatorFiles, SecretMatches, encrypted
        <4> QED
          BY <3>5, <3>6, <3>7, <4>4, <4>5 DEF VaultInv
      <3>9. CASE step \in {1, 2, 3}
        <4>1. /\ secret_key'[v].kind = IF step = 3 THEN "torn" ELSE "missing"
              /\ step >= 2 => public_key'[v] = address(seed)
          BY <1>6, <2>7, <3>1, <3>9 DEF torn
        <4>2. next.step = step + 1 /\ next.seed = seed /\ ~ last
          BY <1>3, <2>7, <3>9
        <4>3. CreatorFiles(v)'
          BY <1>5, <2>2, <3>1, <3>9, <4>1, <4>2 DEF CreatorFiles
        <4>4. SecretMatches(v)'
          BY <4>1 DEF SecretMatches
        <4>5. PastMatches(v)'
          BY <2>2, <2>4, <3>3, <4>2 DEF PastMatches
        <4> QED
          BY <3>5, <3>6, <3>7, <4>3, <4>4, <4>5 DEF VaultInv
      <3> QED
        BY <1>4, <3>8, <3>9
    <2>8. CASE v = at /\ process[p].stage = "migrate"
      <3>1. /\ holds(p, v) /\ migrating(p, v) /\ step \in {1, 2}
            /\ public_key[v] = address(seed) /\ Established(v)
        BY <1>1, <2>1, <2>8 DEF VaultInv, HolderMatches, holds, migrating
      <3>2. /\ public_key'[v] = public_key[v]
            /\ secret_key'[v] = IF step = 1 THEN torn ELSE encrypted(seed)
        BY <1>6, <2>8, <3>1
      <3>3. \A q \in Processes : ~ creating(q, v)'
        BY <2>2, <2>5, <3>1 DEF Established
      <3>4. Established(v)'
        <4>1. CASE step = 1
          <5>1. migrating(p, v)' /\ process'[p].step = 2
            BY <1>3, <1>5, <2>5, <2>8, <3>1, <4>1
          <5> QED
            BY <3>2, <3>3, <4>1, <5>1 DEF Established, torn
        <4>2. CASE step = 2
          BY <3>2, <3>3, <4>2 DEF Established, encrypted
        <4> QED
          BY <3>1, <4>1, <4>2
      <3>5. OneCreator(v)' /\ CreatorFiles(v)'
        BY <3>3 DEF OneCreator, CreatorFiles
      <3>6. SecretMatches(v)'
        BY <3>1, <3>2 DEF SecretMatches, torn, encrypted
      <3>7. HolderMatches(v)'
        BY <1>3, <1>5, <2>1, <2>2, <2>5, <3>1, <3>2, <3>4 DEF VaultInv, HolderMatches
      <3>8. PastMatches(v)'
        BY <1>5, <2>1, <2>2, <2>4, <3>1, <3>2, <3>4 DEF VaultInv, PastMatches
      <3>9. AddressMatches(v)'
        BY <1>5, <2>1, <2>2, <2>3 DEF VaultInv, AddressMatches
      <3>10. GenesisMatches(v)'
        BY <2>1, <3>2, <3>4 DEF VaultInv, GenesisMatches
      <3> QED
        BY <3>5, <3>6, <3>7, <3>8, <3>9, <3>10 DEF VaultInv
    <2> QED
      BY <1>1, <2>6, <2>7, <2>8
  <1> QED
    BY <1>7, <1>8

(***************************************************************************)
(* The pool's identity, the induction step and the theorems.               *)
(***************************************************************************)

\* The vaults' part does not look at the pool's variables, and more drawn seeds do
\* not disturb it.
LEMMA PoolLeavesVaults ==
  ASSUME Shape, FilesInv, UNCHANGED <<files, db, process, doubled, interrupted>>,
         seeds' = seeds \/ (seeds < MaxSeeds /\ seeds' = seeds + 1),
         crashes' \in 0 .. MaxCrashes
  PROVE  Shape' /\ FilesInv'
  <1>1. /\ PublicFiles \subseteq PublicFiles' /\ SecretFiles \subseteq SecretFiles'
        /\ Memory \subseteq Memory' /\ seeds' \in 0 .. MaxSeeds
    <2>1. CASE seeds' = seeds
      BY <2>1 DEF Shape, PublicFiles, SecretFiles, Memory
    <2>2. CASE seeds < MaxSeeds /\ seeds' = seeds + 1
      BY <2>2, MoreSeeds, VaultAssumption DEF Shape
    <2> QED
      BY <2>1, <2>2
  <1>2. Shape'
    <2>1. /\ [Vaults -> PublicFiles] \subseteq [Vaults -> PublicFiles']
          /\ [Vaults -> SecretFiles] \subseteq [Vaults -> SecretFiles']
          /\ [Processes -> Memory] \subseteq [Processes -> Memory']
      BY <1>1
    <2>2. [Processes -> {<<>>} \cup [Vaults -> PublicFiles]]
            \subseteq [Processes -> {<<>>} \cup [Vaults -> PublicFiles']]
      BY <2>1
    <2> QED
      BY <1>1, <2>1, <2>2 DEF Shape, files
  <1>3. FilesInv'
    BY DEF FilesInv, VaultInv, OneCreator, CreatorFiles, SecretMatches, HolderMatches,
           PastMatches, AddressMatches, GenesisMatches, Established, creating, migrating,
           holds, past, has_address, files
  <1> QED
    BY <1>2, <1>3

\* A seed is drawn for the pool only while none has been in use, and once one is in
\* use it is the one in the file, which is never written again.
LEMMA PoolKeeps ==
  ASSUME Shape, PoolInv, PoolLook \/ PoolWrite \/ PoolCrash
  PROVE  PoolInv'
  <1> USE VaultAssumption
  <1>0. seeds \in 0 .. MaxSeeds
    BY DEF Shape
  <1>1. CASE PoolLook
    <2>1. CASE identity.kind = "encrypted"
      <3>1. /\ pool' = [stage |-> "online", seed |-> identity.seed] /\ seeds' = seeds
            /\ pool_seeds' = pool_seeds \cup {identity.seed} /\ identity' = identity
        BY <1>1, <2>1 DEF PoolLook
      <3>2. identity.seed \in 1 .. seeds /\ identity.seed \in 0 .. seeds
        BY <1>0, <2>1 DEF PoolInv
      <3>3. pool_seeds' = {identity.seed}
        BY <3>1, <2>1 DEF PoolInv
      <3> QED
        BY <2>1, <3>1, <3>2, <3>3 DEF PoolInv
    <2>2. CASE identity.kind # "encrypted"
      <3>1. /\ seeds' = seeds + 1 /\ pool' = [stage |-> "create", seed |-> seeds + 1]
            /\ UNCHANGED <<identity, pool_seeds>> /\ pool_seeds = {}
        BY <1>1, <2>2 DEF PoolLook, PoolInv
      <3>2. 0 .. seeds \subseteq 0 .. seeds' /\ seeds + 1 \in 1 .. seeds'
        BY <1>0, <3>1
      <3> QED
        BY <2>2, <3>1, <3>2 DEF PoolInv
    <2> QED
      BY <2>1, <2>2
  <1>2. CASE PoolWrite
    <2>1. pool_seeds = {} /\ pool.seed \in 1 .. seeds /\ seeds' = seeds
      BY <1>2 DEF PoolWrite, PoolInv
    <2>2. CASE pool.stage = "create"
      <3>1. identity' = torn /\ pool' = [pool EXCEPT !.stage = "write"]
            /\ pool_seeds' = pool_seeds
        BY <1>2, <2>2 DEF PoolWrite
      <3>2. pool'.stage = "write" /\ pool'.seed = pool.seed
        BY <3>1 DEF PoolInv
      <3>3. pool' \in [stage : {"off", "create", "write", "online"}, seed : 0 .. seeds']
        BY <2>1, <3>1, <3>2 DEF PoolInv
      <3> QED
        BY <1>0, <2>1, <3>1, <3>2, <3>3 DEF PoolInv, torn
    <2>3. CASE pool.stage = "write"
      <3>1. /\ identity' = encrypted(pool.seed) /\ pool' = [pool EXCEPT !.stage = "online"]
            /\ pool_seeds' = {pool.seed}
        BY <1>2, <2>1, <2>3 DEF PoolWrite
      <3>2. pool'.stage = "online"
        BY <3>1 DEF PoolInv
      <3>3. pool' \in [stage : {"off", "create", "write", "online"}, seed : 0 .. seeds']
        BY <2>1, <3>1, <3>2 DEF PoolInv
      <3> QED
        BY <1>0, <2>1, <3>1, <3>2, <3>3 DEF PoolInv, encrypted
    <2> QED
      BY <1>2, <2>2, <2>3 DEF PoolWrite
  <1>3. CASE PoolCrash
    BY <1>0, <1>3 DEF PoolCrash, PoolInv, history
  <1> QED
    BY <1>1, <1>2, <1>3

\* The pool's part does not look at the vaults.
LEMMA VaultsLeavePool ==
  ASSUME Shape, PoolInv, UNCHANGED pool_vars, seeds' = seeds \/ seeds' = seeds + 1
  PROVE  PoolInv'
  <1>1. 0 .. seeds \subseteq 0 .. seeds' /\ 1 .. seeds \subseteq 1 .. seeds'
    BY VaultAssumption DEF Shape
  <1> QED
    BY <1>1 DEF PoolInv, pool_vars

\* Every step preserves the invariant.
LEMMA NextIInv == IInv /\ [Next]_vars => IInv'
  <1> SUFFICES ASSUME IInv, [Next]_vars PROVE IInv'
    OBVIOUS
  <1>0. Shape /\ FilesInv /\ PoolInv
    BY DEF IInv
  <1>1. ASSUME NEW p \in Processes,
               \/ Start(p) \/ Look(p) \/ Unlock(p) \/ WriteFile(p)
               \/ ReadPublicKey(p) \/ LoadChain(p) \/ Crash(p)
        PROVE  IInv'
    <2>1. Shape' /\ FilesInv'
      BY <1>0, <1>1, StartKeeps, LookKeeps, UnlockKeeps, WriteFileKeeps, ReadPublicKeyKeeps,
         LoadChainKeeps, CrashKeeps
    <2>2. UNCHANGED pool_vars /\ (seeds' = seeds \/ seeds' = seeds + 1)
      BY <1>1 DEF Start, Look, Unlock, WriteFile, ReadPublicKey, LoadChain, Crash, history,
           pool_vars
    <2> QED
      BY <1>0, <2>1, <2>2, VaultsLeavePool DEF IInv
  <1>2. CASE PoolLook \/ PoolWrite \/ PoolCrash
    <2>1. /\ UNCHANGED <<files, db, process, doubled, interrupted>>
          /\ seeds' = seeds \/ (seeds < MaxSeeds /\ seeds' = seeds + 1)
          /\ crashes' \in 0 .. MaxCrashes
      BY <1>0, <1>2, VaultAssumption DEF PoolLook, PoolWrite, PoolCrash, history, Shape
    <2> QED
      BY <1>0, <1>2, <2>1, PoolLeavesVaults, PoolKeeps DEF IInv
  <1>3. CASE UNCHANGED vars
    <2>1. /\ UNCHANGED <<files, db, process, doubled, interrupted>> /\ UNCHANGED pool_vars
          /\ seeds' = seeds /\ crashes' \in 0 .. MaxCrashes
      BY <1>0, <1>3 DEF vars, history, Shape, pool_vars
    <2> QED
      BY <1>0, <2>1, PoolLeavesVaults, VaultsLeavePool DEF IInv
  <1> QED
    BY <1>1, <1>2, <1>3 DEF Next

\* The invariant holds in every reachable state.
THEOREM VaultIInv == Spec => []IInv
  BY InitIInv, NextIInv, PTL DEF Spec

\* Files, databases and processes have their shapes, for any number of processes,
\* vaults, seeds and crashes: the state unlock_or_create_vault and the start work on.
THEOREM VaultTypeOK == Spec => []TypeOK
  <1>1. IInv => TypeOK
    <2> SUFFICES ASSUME IInv PROVE TypeOK
      OBVIOUS
    <2>1. Shape /\ PoolInv
      BY DEF IInv
    <2>2. ASSUME NEW v \in Vaults
          PROVE  /\ public_key[v] \in PublicFiles /\ secret_key[v] \in SecretFiles
      BY <2>1 DEF Shape
    <2>3. ASSUME NEW p \in Processes
          PROVE  /\ process[p] \in Memory
                 /\ db[p] = <<>> \/ DOMAIN db[p] = Vaults
                 /\ process[p].stage = "online" => db[p] # <<>>
      BY <2>1 DEF Shape
    <2> QED
      BY <2>1, <2>2, <2>3 DEF Shape, PoolInv, TypeOK, PublicFiles, SecretFiles, Memory, Stages
  <1> QED
    BY <1>1, VaultIInv, PTL

\* A node that works signs for the addresses it reads from the public key files: each is
\* that of the seed it holds, whatever crashes and migrations came before, for any
\* number of nodes in the directory.
THEOREM VaultSeedMatchesAddress == Spec => []SeedMatchesAddress
  <1>1. IInv => SeedMatchesAddress
    BY DEF IInv, FilesInv, VaultInv, AddressMatches, SeedMatchesAddress, Orderly, has_address
  <1> QED
    BY <1>1, VaultIInv, PTL

\* The seed of the address genesis allocated to is in the secret file, or in a process
\* that is migrating it, unless a crash cut a migration short.
THEOREM VaultTreasuryRecoverable == Spec => []TreasuryRecoverable
  <1>1. ASSUME IInv PROVE TreasuryRecoverable
    <2> SUFFICES ASSUME NEW p \in Processes, NEW v \in Orderly, db[p] # <<>>
                 PROVE  /\ public_key[v] = db[p][v]
                        /\ v \notin interrupted =>
                             \/ /\ secret_key[v].kind \in {"raw", "encrypted"}
                                /\ db[p][v] = address(secret_key[v].seed)
                             \/ \E q \in Processes :
                                  /\ process[q].stage = "migrate" /\ process[q].vault = v
                                  /\ db[p][v] = address(process[q].seed)
      BY DEF TreasuryRecoverable
    <2>1. v \in Vaults /\ VaultInv(v)
      BY <1>1 DEF Orderly, IInv, FilesInv
    <2>2. db[p][v] = public_key[v] /\ Established(v)
      BY <2>1 DEF VaultInv, GenesisMatches
    <2>3. secret_key[v].kind \in {"missing", "torn", "raw", "encrypted"}
      <3>1. secret_key[v] \in SecretFiles
        BY <1>1, <2>1 DEF IInv, Shape
      <3> QED
        BY <3>1 DEF SecretFiles
    <2>4. CASE secret_key[v].kind \in {"raw", "encrypted"}
      BY <2>1, <2>2, <2>4 DEF VaultInv, SecretMatches
    <2>5. ASSUME secret_key[v].kind = "torn", v \notin interrupted
          PROVE  \E q \in Processes :
                   /\ process[q].stage = "migrate" /\ process[q].vault = v
                   /\ db[p][v] = address(process[q].seed)
      <3>1. PICK q \in Processes : migrating(q, v)
        BY <2>2, <2>5 DEF Established
      <3> QED
        BY <2>1, <2>2, <3>1 DEF VaultInv, HolderMatches, holds, migrating
    <2> QED
      BY <2>2, <2>3, <2>4, <2>5 DEF Established
  <1> QED
    BY <1>1, VaultIInv, PTL

\* The pool has worked under one identity at most, and its file still holds it.
THEOREM VaultIdentityKept == Spec => []IdentityKept
  <1>1. ASSUME IInv PROVE IdentityKept
    <2>1. CASE pool_seeds = {}
      <3>1. Cardinality({}) = 0
        BY FS_EmptySet
      <3> QED
        BY <2>1, <3>1 DEF IdentityKept
    <2>2. CASE identity.kind = "encrypted" /\ pool_seeds = {identity.seed}
      <3>1. Cardinality({identity.seed}) = 1
        BY FS_Singleton
      <3>2. identity = encrypted(identity.seed)
        BY <1>1, <2>2 DEF IInv, PoolInv
      <3> QED
        BY <2>2, <3>1, <3>2 DEF IdentityKept
    <2> QED
      BY <1>1, <2>1, <2>2 DEF IInv, PoolInv
  <1> QED
    BY <1>1, VaultIInv, PTL
=============================================================================
