-------------------------- MODULE ExtensionsProofs --------------------------
(***************************************************************************)
(* The registry of contributed modules, for any lists a host may pass.     *)
(***************************************************************************)
EXTENDS Extensions, TLAPS

\* Every variable of the registry keeps its shape, and nothing moves once mounted.
LEMMA RegistryStepTyped ==
  ASSUME RegistryTypeOK, RegistryStep
  PROVE  RegistryTypeOK' /\ boot # "mounted"
<1>1. CASE AcceptModule
  <2>1. contributed \in Seq(Plugin) /\ contributed # <<>>
    BY <1>1 DEF AcceptModule, RegistryTypeOK
  <2>2. Head(contributed) \in Plugin /\ Tail(contributed) \in Seq(Plugin)
    BY <2>1
  <2>3. Head(contributed).id \in BuiltinIds \cup ModuleIds
    BY <1>1, <2>2 DEF AcceptModule, Acceptable, Plugin
  <2>4. Declared(Head(contributed).openAPI) \subseteq OperationIds \cup {o.route : o \in Operations}
    <3>1. Head(contributed).openAPI \in Seq(Operations)
      BY <2>2 DEF Plugin
    <3>2. ASSUME NEW i \in DOMAIN Head(contributed).openAPI
          PROVE  Head(contributed).openAPI[i] \in Operations
      BY <3>1
    <3>3. QED
      BY <3>2, ExtensionsAssumption DEF Declared
  <2>5. QED
    BY <1>1, <2>2, <2>3, <2>4 DEF AcceptModule, RegistryTypeOK
<1>2. CASE RefuseModule
  BY <1>2 DEF RefuseModule, RegistryTypeOK, registry
<1>3. CASE BuildMux
  BY <1>3 DEF BuildMux, RegistryTypeOK, registry
<1>4. QED
  BY <1>1, <1>2, <1>3 DEF RegistryStep

-----------------------------------------------------------------------------
\* What a position in the list of accepted operations is.
LEMMA PositionsAre ==
  \A x : x \in Positions <=>
    \E i \in DOMAIN extra : \E j \in DOMAIN extra[i].openAPI : x = <<i, j>>
BY DEF Positions

\* Modules and operations are told apart, and the registry knows every name taken.
Distinct ==
  /\ BuiltinIds \subseteq ids
  /\ \A i \in DOMAIN extra : extra[i].id \in ids \ BuiltinIds
  /\ \A i, j \in DOMAIN extra : i # j => extra[i].id # extra[j].id
  /\ \A i \in DOMAIN extra : Declared(extra[i].openAPI) \subseteq openAPIOwners
  /\ \A x, y \in Positions : x # y =>
       OperationAt(x).id # OperationAt(y).id /\ OperationAt(x).route # OperationAt(y).route

\* Nothing is taken before the first module is looked at.
LEMMA DistinctInitially ==
  ASSUME RegistryInit
  PROVE  Distinct
BY PositionsAre DEF RegistryInit, Distinct

\* A module that is accepted adds names nobody has.
LEMMA AcceptKeepsDistinct ==
  ASSUME RegistryTypeOK, Distinct, AcceptModule
  PROVE  Distinct'
<1> DEFINE plugin == Head(contributed)
           n == Len(extra) + 1
<1>1. /\ extra \in Seq(Plugin) /\ plugin \in Plugin
      /\ Acceptable(plugin)
      /\ extra' = Append(extra, plugin)
      /\ ids' = ids \cup {plugin.id}
      /\ openAPIOwners' = openAPIOwners \cup Declared(plugin.openAPI)
  BY DEF AcceptModule, RegistryTypeOK
<1> HIDE DEF plugin
<1>2. /\ DOMAIN extra' = 1..n /\ DOMAIN extra = 1..(n - 1)
      /\ \A i \in 1..(n - 1) : extra'[i] = extra[i]
      /\ extra'[n] = plugin
      /\ n \in Nat \ {0}
  BY <1>1
<1> HIDE DEF n
<1>3. \A i \in DOMAIN extra' : i = n \/ i \in DOMAIN extra
  BY <1>2
<1>4. plugin.id \notin ids
  BY <1>1 DEF Acceptable
<1>5. BuiltinIds \subseteq ids'
  BY <1>1 DEF Distinct
<1>6. \A i \in DOMAIN extra' : extra'[i].id \in ids' \ BuiltinIds
  BY <1>1, <1>2, <1>3, <1>4 DEF Distinct
<1>7. \A i, j \in DOMAIN extra' : i # j => extra'[i].id # extra'[j].id
  <2>1. \A i \in DOMAIN extra : extra'[i].id = extra[i].id /\ extra[i].id # plugin.id
    BY <1>2, <1>4 DEF Distinct
  <2>2. QED
    BY <1>2, <1>3, <2>1 DEF Distinct
<1>8. \A i \in DOMAIN extra' : Declared(extra'[i].openAPI) \subseteq openAPIOwners'
  BY <1>1, <1>2 DEF Distinct
<1>9. ASSUME NEW i1 \in 1..n, NEW j1 \in DOMAIN extra'[i1].openAPI,
             NEW i2 \in 1..n, NEW j2 \in DOMAIN extra'[i2].openAPI,
             <<i1, j1>> # <<i2, j2>>
      PROVE  /\ extra'[i1].openAPI[j1].id # extra'[i2].openAPI[j2].id
             /\ extra'[i1].openAPI[j1].route # extra'[i2].openAPI[j2].route
  <2>1. CASE i1 \in 1..(n - 1) /\ i2 \in 1..(n - 1)
    <3>1. <<i1, j1>> \in Positions /\ <<i2, j2>> \in Positions
      BY <1>2, <2>1, PositionsAre
    <3>2. QED
      BY <1>2, <1>9, <2>1, <3>1 DEF Distinct, OperationAt
  <2>2. CASE i1 = n /\ i2 = n
    BY <1>1, <1>2, <1>9, <2>2 DEF Acceptable, ValidOperations
  <2>3. \A j \in DOMAIN plugin.openAPI :
          plugin.openAPI[j].id \notin openAPIOwners /\ plugin.openAPI[j].route \notin openAPIOwners
    <3>1. Declared(plugin.openAPI) \cap openAPIOwners = {}
      BY <1>1 DEF Acceptable, ValidOperations
    <3>2. \A j \in DOMAIN plugin.openAPI :
            plugin.openAPI[j].id \in Declared(plugin.openAPI) /\
            plugin.openAPI[j].route \in Declared(plugin.openAPI)
      BY DEF Declared
    <3>3. QED
      BY <3>1, <3>2
  <2>4. \A i \in 1..(n - 1) : \A j \in DOMAIN extra[i].openAPI :
          extra[i].openAPI[j].id \in openAPIOwners /\ extra[i].openAPI[j].route \in openAPIOwners
    BY <1>2 DEF Distinct, Declared
  <2>5. CASE i1 \in 1..(n - 1) /\ i2 = n
    BY <1>2, <2>3, <2>4, <2>5
  <2>6. CASE i1 = n /\ i2 \in 1..(n - 1)
    BY <1>2, <2>3, <2>4, <2>6
  <2>7. QED
    BY <1>2, <2>1, <2>2, <2>5, <2>6
<1>10. (\A x, y \in Positions : x # y =>
         OperationAt(x).id # OperationAt(y).id /\ OperationAt(x).route # OperationAt(y).route)'
  <2> SUFFICES ASSUME NEW x \in Positions', NEW y \in Positions', x # y
               PROVE  OperationAt(x)'.id # OperationAt(y)'.id /\ OperationAt(x)'.route # OperationAt(y)'.route
    OBVIOUS
  <2>1. PICK i1 \in 1..n : \E j \in DOMAIN extra'[i1].openAPI : x = <<i1, j>>
    BY <1>2 DEF Positions
  <2>2. PICK i2 \in 1..n : \E j \in DOMAIN extra'[i2].openAPI : y = <<i2, j>>
    BY <1>2 DEF Positions
  <2>3. PICK j1 \in DOMAIN extra'[i1].openAPI : x = <<i1, j1>>
    BY <2>1
  <2>4. PICK j2 \in DOMAIN extra'[i2].openAPI : y = <<i2, j2>>
    BY <2>2
  <2>5. QED
    BY <1>9, <2>3, <2>4 DEF OperationAt
<1>11. QED
  BY <1>5, <1>6, <1>7, <1>8, <1>10 DEF Distinct

\* A step that leaves the registry alone keeps its names apart.
LEMMA OthersKeepDistinct ==
  ASSUME Distinct, UNCHANGED registry
  PROVE  Distinct'
BY DEF Distinct, registry, Positions, OperationAt

\* So does every step of the start.
LEMMA RegistryKeepsDistinct ==
  ASSUME RegistryTypeOK, Distinct, RegistryStep
  PROVE  Distinct'
BY AcceptKeepsDistinct, OthersKeepDistinct DEF RegistryStep, RefuseModule, BuildMux

\* With distinct routes no entry of the document overwrites another.
LEMMA DistinctIsOneOwner ==
  ASSUME RegistryTypeOK, Distinct
  PROVE  OneOwner
<1>1. ASSUME NEW x \in Positions
      PROVE  Document[OperationAt(x).route] = OperationAt(x).id
  <2> DEFINE Last(z) == /\ OperationAt(z).route = OperationAt(x).route
                        /\ \A y \in Positions :
                             OperationAt(y).route = OperationAt(x).route => ~Later(z, y)
  <2>1. ~Later(x, x)
    <3>1. PICK i \in DOMAIN extra : \E j \in DOMAIN extra[i].openAPI : x = <<i, j>>
      BY PositionsAre
    <3>2. PICK j \in DOMAIN extra[i].openAPI : x = <<i, j>>
      BY <3>1
    <3>3. extra \in Seq(Plugin) /\ extra[i].openAPI \in Seq(Operations)
      <4>1. extra \in Seq(Plugin)
        BY DEF RegistryTypeOK
      <4>2. extra[i] \in Plugin
        BY <4>1
      <4>3. QED
        BY <4>1, <4>2 DEF Plugin
    <3>4. i \in Nat /\ j \in Nat
      BY <3>1, <3>2, <3>3
    <3>5. QED
      BY <3>2, <3>4 DEF Later
  <2>2. \A y \in Positions : OperationAt(y).route = OperationAt(x).route => y = x
    BY DEF Distinct
  <2>3. Last(x)
    BY <2>1, <2>2
  <2>4. (CHOOSE z \in Positions : Last(z)) = x
    BY <2>2, <2>3
  <2>5. OperationAt(x).route \in {OperationAt(y).route : y \in Positions}
    OBVIOUS
  <2>6. Document[OperationAt(x).route] = OperationAt(CHOOSE z \in Positions : Last(z)).id
    BY <2>5 DEF Document
  <2>7. QED
    BY <2>4, <2>6
<1>2. QED
  BY <1>1 DEF Distinct, OneOwner
=============================================================================
