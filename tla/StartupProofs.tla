--------------------------- MODULE StartupProofs ---------------------------
(***************************************************************************)
(* Theorems of Startup, for every file, environment and request: no key of *)
(* an accepted file is ignored; a service, its command and its routes      *)
(* agree on every variable; an argument is as it is written, its           *)
(* placeholders filled; and a request goes where the file sends it.        *)
(***************************************************************************)
EXTENDS Startup, LeastNatural, SequenceTheorems

-----------------------------------------------------------------------------
(* What is true of each step's result.                                     *)

Accepted == {"loaded", "routed", "ready", "serving"}

\* Each result is what its step makes of the file and the environment.
StartupInv ==
  /\ \E n \in DOMAIN Families : case \in Families[n]
  /\ phase \in Accepted => manifest = BuildManifest(case.file) /\ manifest # Rejected
  /\ phase \in Accepted \ {"loaded"} =>
       table = ResolveRoutes(manifest, case.penv) /\ table # Rejected
  /\ phase \in {"ready", "serving"} =>
       /\ launches = [i \in DOMAIN manifest.services |->
                        Launch(manifest.services[i], case.penv)]
       /\ \A i \in DOMAIN manifest.services : launches[i] # Rejected
  /\ phase = "serving" => request \in case.requests /\ answer = Answer(table, request)

\* Every state that a start of the manager reaches has that of its steps.
THEOREM StartupInvariance == StartupSpec => []StartupInv
<1>1. StartupInit => StartupInv
  BY DEF StartupInit, StartupInv, Accepted
<1>2. StartupInv /\ [StartupNext]_suvars => StartupInv'
  <2> SUFFICES ASSUME StartupInv, [StartupNext]_suvars PROVE StartupInv'
    OBVIOUS
  <2>1. CASE Load
    BY <2>1 DEF Load, StartupInv, Accepted
  <2>2. CASE Resolve
    BY <2>2 DEF Resolve, StartupInv, Accepted
  <2>3. CASE Prepare
    <3>1. launches' = [i \in DOMAIN manifest.services |->
                         Launch(manifest.services[i], case.penv)]
      BY <2>3 DEF Prepare
    <3>2. DOMAIN launches' = DOMAIN manifest.services
      BY <3>1
    <3>3. phase' = "ready" => \A i \in DOMAIN manifest.services : launches'[i] # Rejected
      BY <2>3, <3>2 DEF Prepare
    <3> QED BY <2>3, <3>1, <3>3 DEF Prepare, StartupInv, Accepted
  <2>4. CASE Serve
    BY <2>4 DEF Serve, StartupInv, Accepted
  <2>5. CASE UNCHANGED suvars
    BY <2>5 DEF suvars, StartupInv, Accepted
  <2> QED BY <2>1, <2>2, <2>3, <2>4, <2>5 DEF StartupNext
<1> QED BY <1>1, <1>2, PTL DEF StartupSpec

-----------------------------------------------------------------------------
(* Reading a table without one of its keys.                                *)

\* A table without a key has the others as they were.
LEMMA WithoutHas ==
  ASSUME NEW raw, NEW key
  PROVE  /\ ~Has(Without(raw, key), key)
         /\ \A k : k # key => (Has(Without(raw, key), k) <=> Has(raw, k))
         /\ \A k : k # key /\ Has(raw, k) => Without(raw, key)[k] = raw[k]
  BY DEF Has, Without

\* What a service's table says of its routes, as ParseService reads it.
ParsedRoutes(raw) ==
  IF Get(raw, "routes", <<>>) = Wrong THEN <<Rejected>>
  ELSE [i \in DOMAIN Get(raw, "routes", <<>>) |-> ParseRoute(raw.routes[i])]

AsRead(name, raw) ==
  [name |-> name,
   command |-> Get(raw, "command", <<>>),
   env |-> Get(raw, "env", <<>>),
   routes |-> ParsedRoutes(raw),
   disabled |-> Get(raw, "disabled", FALSE),
   auto_start |-> Get(raw, "auto_start", TRUE)]

\* A service that is not rejected is what its table says, and all of its routes are.
LEMMA ServiceParsed ==
  ASSUME NEW name, NEW raw, ParseService(name, raw) # Rejected
  PROVE  /\ ParseService(name, raw) = AsRead(name, raw)
         /\ OnlyKeys(raw, ServiceKeys)
         /\ Has(raw, "command") => TextList(raw.command)
         /\ Has(raw, "env") => TextMap(raw.env)
         /\ Get(raw, "routes", <<>>) # Wrong
         /\ \A i \in DOMAIN ParsedRoutes(raw) : ParsedRoutes(raw)[i] # Rejected
  <1> DEFINE routes == IF Get(raw, "routes", <<>>) = Wrong THEN <<Rejected>>
                       ELSE [i \in DOMAIN Get(raw, "routes", <<>>) |-> ParseRoute(raw.routes[i])]
  <1>1. routes = ParsedRoutes(raw)
    BY DEF ParsedRoutes
  <1> HIDE DEF routes
  <1>2. /\ ParseService(name, raw) =
             [name |-> name,
              command |-> Get(raw, "command", <<>>),
              env |-> Get(raw, "env", <<>>),
              routes |-> routes,
              disabled |-> Get(raw, "disabled", FALSE),
              auto_start |-> Get(raw, "auto_start", TRUE)]
        /\ OnlyKeys(raw, ServiceKeys)
        /\ Has(raw, "command") => TextList(raw.command)
        /\ Has(raw, "env") => TextMap(raw.env)
        /\ \A i \in DOMAIN routes : routes[i] # Rejected
    BY DEF ParseService, routes
  <1>3. Get(raw, "routes", <<>>) # Wrong
    <2>1. CASE Get(raw, "routes", <<>>) = Wrong
      <3>1. routes = <<Rejected>>
        BY <2>1 DEF routes
      <3> QED BY <1>2, <3>1
    <2> QED BY <2>1
  <1> QED BY <1>1, <1>2, <1>3 DEF AsRead

\* So is a manifest, and all of its services.
LEMMA ManifestBuilt ==
  ASSUME NEW data, BuildManifest(data) # Rejected
  PROVE  /\ OnlyKeys(data, TopLevelKeys)
         /\ Has(data, "http_port") /\ Has(data, "bind") /\ Has(data, "services")
         /\ data.services # Wrong
         /\ BuildManifest(data).services =
              [i \in DOMAIN data.services |->
                 ParseService(data.services[i][1], data.services[i][2])]
         /\ \A i \in DOMAIN data.services :
              ParseService(data.services[i][1], data.services[i][2]) # Rejected
  <1> DEFINE services == [i \in DOMAIN data.services |->
                            ParseService(data.services[i][1], data.services[i][2])]
  <1>1. /\ DOMAIN services = DOMAIN data.services
        /\ \A i \in DOMAIN data.services :
             services[i] = ParseService(data.services[i][1], data.services[i][2])
    OBVIOUS
  <1>2. /\ OnlyKeys(data, TopLevelKeys)
        /\ Has(data, "http_port") /\ Has(data, "bind") /\ Has(data, "services")
        /\ data.services # Wrong
        /\ BuildManifest(data) =
             [http_port |-> data.http_port, bind |-> data.bind, services |-> services]
        /\ \A i \in DOMAIN services : services[i] # Rejected
    BY DEF BuildManifest
  <1> HIDE DEF services
  <1> QED BY <1>1, <1>2 DEF services

-----------------------------------------------------------------------------
(* A key that is left out of a table changes what is read.                 *)

\* At the top level every key is required.
LEMMA TopKeyMatters ==
  ASSUME NEW file, BuildManifest(file) # Rejected, NEW key \in Keys(file)
  PROVE  BuildManifest(Without(file, key)) = Rejected
  <1>1. key \in TopLevelKeys
    BY ManifestBuilt DEF Keys, OnlyKeys
  <1>2. ~Has(Without(file, key), key)
    BY WithoutHas
  <1> QED BY <1>1, <1>2, ManifestBuilt DEF TopLevelKeys

\* In a route every key that is set changes what is read, but a default.
LEMMA RouteKeyMatters ==
  ASSUME NEW raw, ParseRoute(raw) # Rejected, NEW key \in Keys(raw),
         ~(key \in Optional /\ raw[key] = Default(key))
  PROVE  ParseRoute(Without(raw, key)) # ParseRoute(raw)
  <1> DEFINE left == Without(raw, key)
             kindOf(r) == CHOOSE k \in TargetKeys : Has(r, k)
  <1>1. PICK kind \in TargetKeys :
          /\ \A other \in TargetKeys : Has(raw, other) <=> other = kind
          /\ TargetValid(raw, kind)
    BY DEF ParseRoute
  <1>2. key \in RouteKeys
    BY DEF ParseRoute, OnlyKeys, Keys
  <1>3. ~Has(left, key) /\ \A k : k # key => (Has(left, k) <=> Has(raw, k))
    BY WithoutHas
  <1>4. Has(raw, key)
    BY DEF Keys
  <1>5. CASE key \in {"id", "hosts"}
    BY <1>3, <1>5 DEF ParseRoute
  <1>6. CASE key \in TargetKeys
    <2>1. \A k \in TargetKeys : ~Has(left, k)
      BY <1>1, <1>3, <1>4, <1>6
    <2> QED BY <2>1 DEF ParseRoute
  <1>7. CASE key = "target_host"
    <2>1. kind \in PortKeys
      BY <1>1, <1>4, <1>7 DEF TargetValid
    <2>2. kindOf(raw) = kind
      BY <1>1
    <2>3. ParseRoute(raw).host = raw.target_host
      BY <1>4, <1>7, <2>1, <2>2 DEF ParseRoute, Get
    <2>4. kindOf(left) = kind
      BY <1>1, <1>3, <1>7 DEF TargetKeys, PortKeys
    <2>5. ParseRoute(left) = Rejected \/ ParseRoute(left).host = "localhost"
      BY <1>3, <1>7, <2>1, <2>4 DEF ParseRoute, Get
    <2>6. raw.target_host # "localhost"
      BY <1>7 DEF Optional, Default
    <2> QED BY <2>3, <2>5, <2>6
  <1> QED BY <1>2, <1>5, <1>6, <1>7 DEF RouteKeys

\* In a service every key that is set changes what is read, but a default.
LEMMA ServiceKeyMatters ==
  ASSUME NEW name, NEW raw, ParseService(name, raw) # Rejected, NEW key \in Keys(raw),
         Has(raw, "routes") => IsSequence(raw.routes),
         ~(key \in Optional /\ raw[key] = Default(key))
  PROVE  ParseService(name, Without(raw, key)) # ParseService(name, raw)
  <1> DEFINE left == Without(raw, key)
  <1>1. key \in ServiceKeys /\ Has(raw, key)
    BY ServiceParsed DEF OnlyKeys, Keys
  <1>2. ~Has(left, key)
    BY WithoutHas
  <1> SUFFICES ASSUME ParseService(name, left) = ParseService(name, raw) PROVE FALSE
    OBVIOUS
  <1>3. /\ Get(left, "command", <<>>) = Get(raw, "command", <<>>)
        /\ Get(left, "env", <<>>) = Get(raw, "env", <<>>)
        /\ ParsedRoutes(left) = ParsedRoutes(raw)
        /\ Get(left, "disabled", FALSE) = Get(raw, "disabled", FALSE)
        /\ Get(left, "auto_start", TRUE) = Get(raw, "auto_start", TRUE)
    <2>1. AsRead(name, left) = AsRead(name, raw)
      BY ServiceParsed
    <2> QED BY <2>1 DEF AsRead
  <1>4. CASE key = "command"
    BY <1>1, <1>2, <1>3, <1>4, ServiceParsed DEF Get, TextList
  <1>5. CASE key = "env"
    BY <1>1, <1>2, <1>3, <1>5 DEF Get, Optional, Default
  <1>6. CASE key = "disabled"
    BY <1>1, <1>2, <1>3, <1>6 DEF Get, Optional, Default
  <1>7. CASE key = "auto_start"
    BY <1>1, <1>2, <1>3, <1>7 DEF Get, Optional, Default
  <1>8. CASE key = "routes"
    <2>1. raw.routes # <<>> /\ IsSequence(raw.routes)
      BY <1>1, <1>8 DEF Optional, Default
    <2>2. 1 \in DOMAIN raw.routes
      BY <2>1, EmptySeq, LenProperties DEF IsSequence
    <2>3. Get(raw, "routes", <<>>) = raw.routes /\ Get(left, "routes", <<>>) = <<>>
      BY <1>1, <1>2, <1>8 DEF Get
    <2>4. DOMAIN ParsedRoutes(raw) = DOMAIN raw.routes
      BY <2>3, ServiceParsed DEF ParsedRoutes
    <2>5. DOMAIN ParsedRoutes(left) = {}
      <3>1. Get(left, "routes", <<>>) # Wrong
        BY ServiceParsed
      <3> QED BY <2>3, <3>1 DEF ParsedRoutes
    <2> QED BY <1>3, <2>2, <2>4, <2>5
  <1> QED BY <1>1, <1>4, <1>5, <1>6, <1>7, <1>8 DEF ServiceKeys

-----------------------------------------------------------------------------
(* A change in a route changes its service, one in a service the manifest. *)

\* Where one route reads otherwise, so does its service.
LEMMA RouteMatters ==
  ASSUME NEW name, NEW raw, ParseService(name, raw) # Rejected, Has(raw, "routes"),
         NEW j \in DOMAIN raw.routes, NEW route,
         ParseRoute(route) # ParseRoute(raw.routes[j])
  PROVE  ParseService(name, [raw EXCEPT !.routes[j] = route]) # ParseService(name, raw)
  <1> DEFINE other == [raw EXCEPT !.routes[j] = route]
  <1> SUFFICES ASSUME ParseService(name, other) = ParseService(name, raw) PROVE FALSE
    OBVIOUS
  <1>1. ParsedRoutes(other) = ParsedRoutes(raw)
    <2> HIDE DEF other
    <2>1. AsRead(name, other) = AsRead(name, raw)
      BY ServiceParsed
    <2> QED BY <2>1 DEF AsRead
  <1>2. /\ Get(raw, "routes", <<>>) = raw.routes
        /\ Get(raw, "routes", <<>>) # Wrong
        /\ Get(other, "routes", <<>>) # Wrong
    <2> HIDE DEF other
    <2> QED BY ServiceParsed DEF Get
  <1>3. j \in DOMAIN ParsedRoutes(raw) /\ ParsedRoutes(raw)[j] = ParseRoute(raw.routes[j])
    BY <1>2 DEF ParsedRoutes
  <1>4. other.routes[j] = route
    BY DEF Has
  <1> HIDE DEF other
  <1>5. ParsedRoutes(other)[j] = ParseRoute(other.routes[j])
    BY <1>1, <1>2, <1>3 DEF ParsedRoutes
  <1> QED BY <1>1, <1>3, <1>4, <1>5

\* Where one service reads otherwise, so does the file.
LEMMA ServiceMatters ==
  ASSUME NEW file, BuildManifest(file) # Rejected, WellFormed(file),
         NEW i \in DOMAIN file.services, NEW raw,
         ParseService(file.services[i][1], raw) #
           ParseService(file.services[i][1], file.services[i][2])
  PROVE  BuildManifest([file EXCEPT !.services[i][2] = raw]) # BuildManifest(file)
  <1> DEFINE other == [file EXCEPT !.services[i][2] = raw]
             read(f) == [k \in DOMAIN f.services |->
                           ParseService(f.services[k][1], f.services[k][2])]
  <1> SUFFICES ASSUME BuildManifest(other) = BuildManifest(file) PROVE FALSE
    OBVIOUS
  <1>1. BuildManifest(other).services = read(other) /\ BuildManifest(file).services = read(file)
    <2> HIDE DEF other
    <2> QED BY ManifestBuilt
  <1>2. file.services[i] = <<file.services[i][1], file.services[i][2]>>
    BY ManifestBuilt DEF WellFormed, Get
  <1>3. "services" \in DOMAIN file
    BY ManifestBuilt DEF Has
  <1>4. other.services = [file.services EXCEPT ![i] = [@ EXCEPT ![2] = raw]]
    BY <1>3
  <1>5. DOMAIN other.services = DOMAIN file.services
    BY <1>4
  <1>6. other.services[i] = [file.services[i] EXCEPT ![2] = raw]
    BY <1>4
  <1>7. other.services[i][1] = file.services[i][1] /\ other.services[i][2] = raw
    BY <1>2, <1>6
  <1> HIDE DEF other
  <1>8. read(other)[i] = ParseService(file.services[i][1], raw)
    BY <1>5, <1>7
  <1>9. read(file)[i] = ParseService(file.services[i][1], file.services[i][2])
    OBVIOUS
  <1> QED BY <1>1, <1>8, <1>9

-----------------------------------------------------------------------------
(* No key is ignored.                                                      *)

\* Of an accepted file, however large and however nested, every key of every table
\* is read: without it the file is rejected or means something else, unless the key
\* states its default (parse_route, parse_service, build_manifest).
THEOREM NoKeyIsIgnored == StartupSpec => []NothingIgnored
<1>1. StartupInv => NothingIgnored
  <2> SUFFICES ASSUME StartupInv, phase = "loaded" PROVE NothingIgnored
    BY DEF NothingIgnored
  <2> DEFINE file == case.file
             raw(i) == file.services[i][2]
  <2>1. manifest = BuildManifest(file) /\ BuildManifest(file) # Rejected /\ WellFormed(file)
    BY StartupAssumption DEF StartupInv, Accepted
  <2> HIDE DEF file
  <2>2. ASSUME NEW key \in Keys(file) PROVE Matters(key, file[key], Without(file, key))
    BY <2>1, <2>2, TopKeyMatters DEF Matters
  <2>3. ASSUME NEW i \in DOMAIN file.services
        PROVE  /\ ParseService(file.services[i][1], raw(i)) # Rejected
               /\ raw(i) # Wrong
               /\ Has(raw(i), "routes") => IsSequence(raw(i).routes)
               /\ file.services[i] = <<file.services[i][1], raw(i)>>
               /\ "services" \in DOMAIN file
    <3>1. ParseService(file.services[i][1], raw(i)) # Rejected
      BY <2>1, ManifestBuilt
    <3>2. raw(i) # Wrong /\ Get(raw(i), "routes", <<>>) # Wrong
      BY <3>1, ServiceParsed DEF OnlyKeys
    <3>3. Get(file, "services", Wrong) # Wrong /\ "services" \in DOMAIN file
      BY <2>1, ManifestBuilt DEF Get, Has
    <3>4. Has(raw(i), "routes") => Get(raw(i), "routes", Wrong) # Wrong
      BY <3>2 DEF Get
    <3> QED BY <2>1, <3>1, <3>2, <3>3, <3>4 DEF WellFormed, IsArray
  <2>4. ASSUME NEW i \in DOMAIN file.services, NEW key \in Keys(raw(i))
        PROVE  Matters(key, raw(i)[key], [file EXCEPT !.services[i][2] = Without(@, key)])
    <3> SUFFICES ASSUME ~(key \in Optional /\ raw(i)[key] = Default(key))
                 PROVE  BuildManifest([file EXCEPT !.services[i][2] = Without(@, key)]) # manifest
      BY DEF Matters
    <3>1. [file EXCEPT !.services[i][2] = Without(@, key)] =
            [file EXCEPT !.services[i][2] = Without(raw(i), key)]
      BY <2>3, <2>4
    <3>2. ParseService(file.services[i][1], Without(raw(i), key)) #
            ParseService(file.services[i][1], raw(i))
      BY <2>3, <2>4, ServiceKeyMatters
    <3> QED BY <2>1, <2>4, <3>1, <3>2, ServiceMatters
  <2>5. ASSUME NEW i \in DOMAIN file.services, NEW j \in DOMAIN Get(raw(i), "routes", <<>>),
               NEW key \in Keys(raw(i).routes[j])
        PROVE  Matters(key, raw(i).routes[j][key],
                       [file EXCEPT !.services[i][2].routes[j] = Without(@, key)])
    <3> DEFINE route == raw(i).routes[j]
               other == [raw(i) EXCEPT !.routes[j] = Without(route, key)]
    <3> SUFFICES ASSUME ~(key \in Optional /\ route[key] = Default(key))
                 PROVE  BuildManifest([file EXCEPT !.services[i][2].routes[j] =
                                                     Without(@, key)]) # manifest
      BY DEF Matters
    <3>1. Has(raw(i), "routes") /\ j \in DOMAIN raw(i).routes
      BY <2>5 DEF Get
    <3>2. [file EXCEPT !.services[i][2].routes[j] = Without(@, key)] =
            [file EXCEPT !.services[i][2] = other]
      BY <2>3, <2>5, <3>1 DEF Has
    <3>3. ParseRoute(route) # Rejected
      <4>1. Get(raw(i), "routes", <<>>) = raw(i).routes
        BY <3>1 DEF Get
      <4>2. ParsedRoutes(raw(i))[j] = ParseRoute(route) /\ j \in DOMAIN ParsedRoutes(raw(i))
        BY <2>3, <2>5, <3>1, <4>1, ServiceParsed DEF ParsedRoutes
      <4> QED BY <2>3, <2>5, <4>2, ServiceParsed
    <3>4. ParseRoute(Without(route, key)) # ParseRoute(route)
      BY <2>5, <3>3, RouteKeyMatters
    <3>5. ParseService(file.services[i][1], other) # ParseService(file.services[i][1], raw(i))
      BY <2>3, <2>5, <3>1, <3>4, RouteMatters
    <3> HIDE DEF other
    <3> QED BY <2>1, <2>5, <3>2, <3>5, ServiceMatters
  <2> QED BY <2>2, <2>4, <2>5 DEF NothingIgnored, file
<1> QED BY <1>1, StartupInvariance, PTL

-----------------------------------------------------------------------------
(* Variables are the same for all who look at them.                        *)

AllUnicode(env) == \A key \in DOMAIN env : env[key] # NotUnicode

\* A child finds in its environment what its routes and placeholders were given.
LEMMA ChildFinds ==
  ASSUME NEW service, NEW penv, Valued(penv), AllUnicode(ChildEnv(service, penv)), NEW key
  PROVE  Get(ChildEnv(service, penv), key, Missing) = ServiceValue(service, penv, key)
  <1> DEFINE child == ChildEnv(service, penv)
  <1>1. /\ DOMAIN child = (DOMAIN penv) \cup (DOMAIN service.env)
        /\ \A k \in DOMAIN child :
             child[k] = IF k \in DOMAIN penv THEN penv[k] ELSE service.env[k]
    BY DEF ChildEnv
  <1> HIDE DEF child
  <1>2. CASE key \in DOMAIN penv
    <2>1. child[key] = penv[key] /\ penv[key] # NotUnicode /\ penv[key] # Missing
      BY <1>1, <1>2 DEF AllUnicode, Valued, child
    <2> QED BY <1>1, <1>2, <2>1 DEF ServiceValue, Get, Has, child
  <1>3. CASE key \notin DOMAIN penv
    BY <1>1, <1>3 DEF ServiceValue, Get, Has, child
  <1> QED BY <1>2, <1>3

\* An argument depends on a lookup by the values it finds alone.
LEMMA SubstituteSame ==
  ASSUME NEW arg, NEW one, NEW two, \A key : Get(one, key, Missing) = Get(two, key, Missing)
  PROVE  Substitute(arg, one) = Substitute(arg, two)
  <1> DEFINE pieces == Scan(arg)
             text(env, i) == IF "key" \in DOMAIN pieces[i]
                             THEN Get(env, pieces[i].key, Missing)
                             ELSE <<pieces[i].char>>
  <1>1. \A i : text(one, i) = text(two, i)
    OBVIOUS
  <1>2. \A env : Substitute(arg, env) =
                   IF \E i \in DOMAIN pieces : text(env, i) = Missing THEN Rejected
                   ELSE FlattenSeq([i \in DOMAIN pieces |-> text(env, i)])
    BY DEF Substitute
  <1> HIDE DEF pieces, text
  <1>3. [i \in DOMAIN pieces |-> text(one, i)] = [i \in DOMAIN pieces |-> text(two, i)]
    BY <1>1
  <1> QED BY <1>1, <1>2, <1>3

\* So does a command.
LEMMA CommandSame ==
  ASSUME NEW command, NEW one, NEW two, \A key : Get(one, key, Missing) = Get(two, key, Missing)
  PROVE  ResolveCommand(command, one) = ResolveCommand(command, two)
  <1>1. \A arg : Substitute(arg, one) = Substitute(arg, two)
    BY SubstituteSame
  <1>2. [i \in DOMAIN command |-> Substitute(command[i], one)] =
          [i \in DOMAIN command |-> Substitute(command[i], two)]
    BY <1>1
  <1> QED BY <1>2 DEF ResolveCommand

\* A route leads to the place that the child finds in its environment.
LEMMA TargetSame ==
  ASSUME NEW service, "env" \in DOMAIN service, NEW route, NEW penv,
         Valued(penv), AllUnicode(ChildEnv(service, penv))
  PROVE  Target(service, route, penv) =
           Target([service EXCEPT !.env = ChildEnv(service, penv)], route, <<>>)
  <1> DEFINE child == ChildEnv(service, penv)
             asChild == [service EXCEPT !.env = child]
  <1>1. asChild.env = child
    OBVIOUS
  <1> HIDE DEF child, asChild
  <1>2. Get(<<>>, route.text, NotUnicode) = NotUnicode
    BY DEF Get, Has
  <1>3. ServiceValue(asChild, <<>>, route.text) = Get(child, route.text, Missing)
    BY <1>1, <1>2 DEF ServiceValue
  <1>4. ServiceValue(service, penv, route.text) = ServiceValue(asChild, <<>>, route.text)
    BY <1>3, ChildFinds DEF child
  <1>5. Target(service, route, penv) = Target(asChild, route, <<>>)
    BY <1>4 DEF Target
  <1> QED BY <1>5 DEF asChild, child

-----------------------------------------------------------------------------
(* The routes that are declared are a sequence.                            *)

RoutesOf(service) ==
  [j \in DOMAIN service.routes |-> [service |-> service, route |-> service.routes[j]]]

Declare(before, service) ==
  IF service.disabled THEN before ELSE before \o RoutesOf(service)

\* g is what Declared computes of the services up to the n-th.
DeclaredTo(g, services, n) ==
  g = [i \in 0 .. n |-> IF i = 0 THEN <<>> ELSE Declare(g[i - 1], services[i])]

\* The recursion of Declared has a solution.
LEMMA DeclaredExists ==
  ASSUME NEW services, NEW n \in Nat
  PROVE  \E g : DeclaredTo(g, services, n)
  <1> DEFINE Bad == {k \in Nat : ~ \E g : DeclaredTo(g, services, k)}
  <1>1. ASSUME Bad # {} PROVE FALSE
    <2>1. PICK m \in Bad : \A k \in Bad : m <= k
      BY <1>1, Least
    <2>2. m \in Nat /\ ~ \E g : DeclaredTo(g, services, m)
      BY <2>1
    <2>3. CASE m = 0
      <3> DEFINE h == [i \in 0 .. 0 |-> <<>>]
      <3>1. DeclaredTo(h, services, 0)
        BY DEF DeclaredTo
      <3> HIDE DEF h
      <3> QED BY <2>2, <2>3, <3>1
    <2>4. CASE m > 0
      <3>1. PICK g : DeclaredTo(g, services, m - 1)
        BY <2>1, <2>2, <2>4
      <3> DEFINE h == [i \in 0 .. m |-> IF i = m THEN Declare(g[m - 1], services[m]) ELSE g[i]]
      <3>2. \A i \in 0 .. m - 1 :
              h[i] = g[i] /\ g[i] = IF i = 0 THEN <<>> ELSE Declare(g[i - 1], services[i])
        BY <2>2, <3>1 DEF DeclaredTo
      <3>3. h[m] = Declare(g[m - 1], services[m]) /\ h = [i \in 0 .. m |-> h[i]]
        BY <2>2
      <3> HIDE DEF h
      <3>4. \A i \in 0 .. m : h[i] = IF i = 0 THEN <<>> ELSE Declare(h[i - 1], services[i])
        <4> TAKE i \in 0 .. m
        <4>1. CASE i = m
          <5>1. h[m - 1] = g[m - 1]
            BY <2>2, <2>4, <3>2
          <5> QED BY <2>2, <2>4, <3>3, <4>1, <5>1
        <4>2. CASE i # m
          <5>1. i \in 0 .. m - 1 /\ (i # 0 => i - 1 \in 0 .. m - 1)
            BY <2>2, <4>2
          <5> QED BY <3>2, <5>1
        <4> QED BY <4>1, <4>2
      <3>5. DeclaredTo(h, services, m)
        BY <3>3, <3>4 DEF DeclaredTo
      <3> QED BY <2>2, <3>5
    <2> QED BY <2>2, <2>3, <2>4
  <1> QED BY <1>1

\* Declared's result is that function's last value.
LEMMA DeclaredIs ==
  ASSUME NEW read, Len(read.services) \in Nat
  PROVE  \E g : /\ DeclaredTo(g, read.services, Len(read.services))
                /\ Declared(read) = g[Len(read.services)]
  <1> DEFINE services == read.services
             declared[i \in 0 .. Len(services)] ==
               IF i = 0 THEN <<>>
               ELSE IF services[i].disabled THEN declared[i - 1]
               ELSE declared[i - 1] \o
                      [j \in DOMAIN services[i].routes |->
                         [service |-> services[i], route |-> services[i].routes[j]]]
  <1>1. Declared(read) = declared[Len(services)]
    BY DEF Declared
  <1>2. Len(services) \in Nat
    OBVIOUS
  <1> HIDE DEF services
  <1>3. \E g : g = [i \in 0 .. Len(services) |->
                     IF i = 0 THEN <<>>
                     ELSE IF services[i].disabled THEN g[i - 1]
                     ELSE g[i - 1] \o
                            [j \in DOMAIN services[i].routes |->
                               [service |-> services[i], route |-> services[i].routes[j]]]]
    <2>1. PICK g : DeclaredTo(g, services, Len(services))
      BY <1>2, DeclaredExists
    <2> QED BY <2>1 DEF DeclaredTo, Declare, RoutesOf
  <1>4. declared = [i \in 0 .. Len(services) |->
                     IF i = 0 THEN <<>>
                     ELSE IF services[i].disabled THEN declared[i - 1]
                     ELSE declared[i - 1] \o
                            [j \in DOMAIN services[i].routes |->
                               [service |-> services[i], route |-> services[i].routes[j]]]]
    BY <1>3
  <1> HIDE DEF declared
  <1>5. DeclaredTo(declared, services, Len(services))
    BY <1>4 DEF DeclaredTo, Declare, RoutesOf
  <1> QED BY <1>1, <1>5 DEF services

\* The routes of the services that are not disabled.
Enabled(read) ==
  {p \in (1 .. Len(read.services)) \X Nat :
     ~read.services[p[1]].disabled /\ p[2] \in DOMAIN read.services[p[1]].routes}

EnabledRoutes(read) ==
  {[service |-> read.services[p[1]], route |-> read.services[p[1]].routes[p[2]]] :
     p \in Enabled(read)}

\* The services and the routes of each are sequences.
Listed(read) ==
  /\ Len(read.services) \in Nat
  /\ DOMAIN read.services = 1 .. Len(read.services)
  /\ \A i \in 1 .. Len(read.services) :
       \E l \in Nat : DOMAIN read.services[i].routes = 1 .. l

\* Then what is declared is a sequence of the routes that are enabled.
LEMMA DeclaredIsSeq ==
  ASSUME NEW read, Listed(read)
  PROVE  Declared(read) \in Seq(EnabledRoutes(read))
  <1> DEFINE services == read.services
             last == Len(services)
             Pairs == EnabledRoutes(read)
  <1>0. last \in Nat
    BY DEF Listed
  <1>1. PICK g : DeclaredTo(g, services, last) /\ Declared(read) = g[last]
    BY <1>0, DeclaredIs
  <1>2. ASSUME NEW i \in 1 .. last, ~services[i].disabled
        PROVE  RoutesOf(services[i]) \in Seq(Pairs)
    <2>1. PICK l \in Nat : DOMAIN services[i].routes = 1 .. l
      BY <1>2 DEF Listed
    <2> DEFINE pair(j) == [service |-> services[i], route |-> services[i].routes[j]]
    <2>2. \A j \in 1 .. l : pair(j) \in Pairs
      <3> TAKE j \in 1 .. l
      <3>1. <<i, j>> \in (1 .. last) \X Nat /\ <<i, j>>[1] = i /\ <<i, j>>[2] = j
        BY <1>2
      <3>2. <<i, j>> \in Enabled(read)
        BY <1>2, <2>1, <3>1 DEF Enabled
      <3> QED BY <3>1, <3>2 DEF EnabledRoutes
    <2>3. RoutesOf(services[i]) = [j \in 1 .. l |-> pair(j)]
      BY <2>1 DEF RoutesOf
    <2> HIDE DEF Pairs, pair
    <2> QED BY <2>2, <2>3, IsASeq
  <1> DEFINE Bad == {k \in 0 .. last : g[k] \notin Seq(Pairs)}
  <1> HIDE DEF Pairs, last, services
  <1>4. \A i \in 0 .. last : g[i] = IF i = 0 THEN <<>> ELSE Declare(g[i - 1], services[i])
    BY <1>1 DEF DeclaredTo
  <1>5. ASSUME Bad # {} PROVE FALSE
    <2>0. Bad \in SUBSET Nat /\ Bad # {}
      BY <1>0, <1>5
    <2>1. PICK m \in Bad : \A k \in Bad : m <= k
      <3> HIDE DEF Bad
      <3> QED BY <2>0, Least
    <2>2. m \in 0 .. last /\ g[m] \notin Seq(Pairs)
      BY <2>1
    <2>3. m # 0
      BY <1>0, <1>4, <2>2, EmptySeq
    <2>4. m \in 1 .. last /\ m - 1 \in 0 .. last /\ m - 1 < m
      BY <1>0, <2>2, <2>3
    <2>5. g[m - 1] \in Seq(Pairs)
      BY <1>0, <2>1, <2>4
    <2>6. g[m] = Declare(g[m - 1], services[m])
      BY <1>4, <2>2, <2>3
    <2>7. CASE services[m].disabled
      BY <2>2, <2>5, <2>6, <2>7 DEF Declare
    <2>8. CASE ~services[m].disabled
      <3>1. RoutesOf(services[m]) \in Seq(Pairs)
        BY <1>2, <2>4, <2>8
      <3>2. g[m - 1] \o RoutesOf(services[m]) \in Seq(Pairs)
        BY <2>5, <3>1, ConcatProperties
      <3> QED BY <2>2, <2>6, <2>8, <3>2 DEF Declare
    <2> QED BY <2>7, <2>8
  <1> QED BY <1>0, <1>1, <1>5 DEF last, Pairs

-----------------------------------------------------------------------------
(* Each of them has its entry in the table.                                *)

AddRoute(before, d, penv) ==
  IF before = Rejected \/ ResolvedRoute(d, penv).target = Rejected THEN Rejected
  ELSE IF Claimed(before, ResolvedRoute(d, penv).target) THEN Rejected
  ELSE Append(before, ResolvedRoute(d, penv))

\* g is what ResolveRoutes computes of the first n routes that are declared.
ResolvedTo(g, declared, penv, n) ==
  g = [i \in 0 .. n |-> IF i = 0 THEN <<>> ELSE AddRoute(g[i - 1], declared[i], penv)]

\* The recursion of ResolveRoutes has a solution.
LEMMA ResolvedExists ==
  ASSUME NEW declared, NEW penv, NEW n \in Nat
  PROVE  \E g : ResolvedTo(g, declared, penv, n)
  <1> DEFINE Bad == {k \in Nat : ~ \E g : ResolvedTo(g, declared, penv, k)}
  <1>1. ASSUME Bad # {} PROVE FALSE
    <2>1. PICK m \in Bad : \A k \in Bad : m <= k
      BY <1>1, Least
    <2>2. m \in Nat /\ ~ \E g : ResolvedTo(g, declared, penv, m)
      BY <2>1
    <2>3. CASE m = 0
      <3> DEFINE h == [i \in 0 .. 0 |-> <<>>]
      <3>1. ResolvedTo(h, declared, penv, 0)
        BY DEF ResolvedTo
      <3> HIDE DEF h
      <3> QED BY <2>2, <2>3, <3>1
    <2>4. CASE m > 0
      <3>1. PICK g : ResolvedTo(g, declared, penv, m - 1)
        BY <2>1, <2>2, <2>4
      <3> DEFINE h == [i \in 0 .. m |->
                         IF i = m THEN AddRoute(g[m - 1], declared[m], penv) ELSE g[i]]
      <3>2. \A i \in 0 .. m - 1 :
              /\ h[i] = g[i]
              /\ g[i] = IF i = 0 THEN <<>> ELSE AddRoute(g[i - 1], declared[i], penv)
        BY <2>2, <3>1 DEF ResolvedTo
      <3>3. h[m] = AddRoute(g[m - 1], declared[m], penv) /\ h = [i \in 0 .. m |-> h[i]]
        BY <2>2
      <3> HIDE DEF h
      <3>4. \A i \in 0 .. m : h[i] = IF i = 0 THEN <<>> ELSE AddRoute(h[i - 1], declared[i], penv)
        <4> TAKE i \in 0 .. m
        <4>1. CASE i = m
          <5>1. h[m - 1] = g[m - 1]
            BY <2>2, <2>4, <3>2
          <5> QED BY <2>2, <2>4, <3>3, <4>1, <5>1
        <4>2. CASE i # m
          <5>1. i \in 0 .. m - 1 /\ (i # 0 => i - 1 \in 0 .. m - 1)
            BY <2>2, <4>2
          <5> QED BY <3>2, <5>1
        <4> QED BY <4>1, <4>2
      <3>5. ResolvedTo(h, declared, penv, m)
        BY <3>3, <3>4 DEF ResolvedTo
      <3> QED BY <2>2, <3>5
    <2> QED BY <2>2, <2>3, <2>4
  <1> QED BY <1>1

\* ResolveRoutes' result is that function's last value.
LEMMA ResolvedIs ==
  ASSUME NEW read, NEW penv, Len(Declared(read)) \in Nat
  PROVE  \E g : /\ ResolvedTo(g, Declared(read), penv, Len(Declared(read)))
                /\ ResolveRoutes(read, penv) = g[Len(Declared(read))]
  <1> DEFINE declared == Declared(read)
             entries[n \in 0 .. Len(declared)] ==
               IF n = 0 THEN <<>>
               ELSE LET before == entries[n - 1]
                        new    == ResolvedRoute(declared[n], penv)
                    IN IF before = Rejected \/ new.target = Rejected THEN Rejected
                       ELSE IF Claimed(before, new.target) THEN Rejected
                       ELSE Append(before, new)
  <1>1. ResolveRoutes(read, penv) = entries[Len(declared)]
    BY DEF ResolveRoutes
  <1>2. Len(declared) \in Nat
    OBVIOUS
  <1> HIDE DEF declared
  <1>3. \E g : g = [n \in 0 .. Len(declared) |->
                     IF n = 0 THEN <<>>
                     ELSE LET before == g[n - 1]
                              new    == ResolvedRoute(declared[n], penv)
                          IN IF before = Rejected \/ new.target = Rejected THEN Rejected
                             ELSE IF Claimed(before, new.target) THEN Rejected
                             ELSE Append(before, new)]
    <2>1. PICK g : ResolvedTo(g, declared, penv, Len(declared))
      BY <1>2, ResolvedExists
    <2> QED BY <2>1 DEF ResolvedTo, AddRoute
  <1>4. entries = [n \in 0 .. Len(declared) |->
                     IF n = 0 THEN <<>>
                     ELSE LET before == entries[n - 1]
                              new    == ResolvedRoute(declared[n], penv)
                          IN IF before = Rejected \/ new.target = Rejected THEN Rejected
                             ELSE IF Claimed(before, new.target) THEN Rejected
                             ELSE Append(before, new)]
    BY <1>3
  <1> HIDE DEF entries
  <1>5. ResolvedTo(entries, declared, penv, Len(declared))
    BY <1>4 DEF ResolvedTo, AddRoute
  <1> QED BY <1>1, <1>5 DEF declared

\* A target is a port at a host or a path.
LEMMA TargetShape ==
  ASSUME NEW service, NEW route, NEW penv, Target(service, route, penv) # Rejected
  PROVE  \/ DOMAIN Target(service, route, penv) = {"path"}
         \/ DOMAIN Target(service, route, penv) = {"host", "port"}
  BY DEF Target, Tcp, Unix

\* Two targets apart, and not on one port.
Apart(one, two) ==
  /\ one # two
  /\ "port" \in DOMAIN one /\ "port" \in DOMAIN two => one.port # two.port

\* A table that is not rejected is the declared routes, resolved one by one, each
\* to a place of its own.
LEMMA ResolvedRight ==
  ASSUME NEW read, NEW penv, Len(Declared(read)) \in Nat,
         ResolveRoutes(read, penv) # Rejected
  PROVE  LET declared == Declared(read)
             entries  == ResolveRoutes(read, penv)
         IN /\ DOMAIN entries = 1 .. Len(declared)
            /\ \A n \in DOMAIN entries : entries[n] = ResolvedRoute(declared[n], penv)
            /\ \A m, n \in DOMAIN entries : m # n => Apart(entries[m].target, entries[n].target)
  <1> DEFINE declared == Declared(read)
             last == Len(declared)
             Entries == {ResolvedRoute(declared[i], penv) : i \in 1 .. last}
             Right(seq, n) ==
               /\ seq \in Seq(Entries) /\ Len(seq) = n
               /\ \A i \in 1 .. n : /\ seq[i] = ResolvedRoute(declared[i], penv)
                                    /\ seq[i].target # Rejected
               /\ \A i, k \in 1 .. n : i # k => Apart(seq[i].target, seq[k].target)
  <1>1. PICK g : ResolvedTo(g, declared, penv, last) /\ ResolveRoutes(read, penv) = g[last]
    BY ResolvedIs
  <1> DEFINE Bad == {k \in 0 .. last : ~ (g[k] = Rejected \/ Right(g[k], k))}
  <1>2. last \in Nat
    OBVIOUS
  <1>3. \A i \in 1 .. last : ResolvedRoute(declared[i], penv) \in Entries
    OBVIOUS
  <1> HIDE DEF Entries, last, declared
  <1>4. \A i \in 0 .. last : g[i] = IF i = 0 THEN <<>> ELSE AddRoute(g[i - 1], declared[i], penv)
    BY <1>1 DEF ResolvedTo
  <1>5. ASSUME Bad # {} PROVE FALSE
    <2>0. Bad \in SUBSET Nat /\ Bad # {}
      BY <1>2, <1>5
    <2>1. PICK m \in Bad : \A k \in Bad : m <= k
      <3> HIDE DEF Bad
      <3> QED BY <2>0, Least
    <2>2. m \in 0 .. last /\ g[m] # Rejected /\ ~Right(g[m], m)
      BY <2>1
    <2>3. CASE m = 0
      <3>1. g[m] = <<>>
        BY <1>2, <1>4, <2>3
      <3> QED BY <2>2, <2>3, <3>1, EmptySeq
    <2>4. CASE m # 0
      <3> DEFINE new == ResolvedRoute(declared[m], penv)
      <3>1. m \in 1 .. last /\ m - 1 \in 0 .. last /\ m - 1 < m /\ m \in Nat
        BY <1>2, <2>2, <2>4
      <3>2. g[m - 1] = Rejected \/ Right(g[m - 1], m - 1)
        BY <1>2, <2>1, <3>1
      <3>3. g[m] = AddRoute(g[m - 1], declared[m], penv)
        BY <1>4, <2>2, <2>4
      <3>4. /\ g[m - 1] # Rejected /\ g[m] = Append(g[m - 1], new)
            /\ new.target # Rejected /\ ~Claimed(g[m - 1], new.target)
        BY <2>2, <3>3 DEF AddRoute
      <3>5. new \in Entries
        BY <1>3, <3>1
      <3>6. new.target = Target(declared[m].service, declared[m].route, penv)
        BY DEF ResolvedRoute
      <3> HIDE DEF new
      <3>7. /\ g[m - 1] \in Seq(Entries) /\ Len(g[m - 1]) = m - 1
            /\ \A i \in 1 .. m - 1 : /\ g[m - 1][i] = ResolvedRoute(declared[i], penv)
                                     /\ g[m - 1][i].target # Rejected
            /\ \A i, k \in 1 .. m - 1 : i # k => Apart(g[m - 1][i].target, g[m - 1][k].target)
        BY <3>2, <3>4
      <3>8. g[m] \in Seq(Entries) /\ Len(g[m]) = m
        BY <3>1, <3>4, <3>5, <3>7, AppendProperties
      <3>9. \A i \in 1 .. m - 1 : g[m][i] = g[m - 1][i]
        BY <3>4, <3>5, <3>7, AppendProperties
      <3>10. g[m][m] = new
        BY <3>1, <3>4, <3>5, <3>7, AppendProperties
      <3>11. \A i \in 1 .. m : i \in 1 .. m - 1 \/ i = m
        BY <3>1
      <3>12. \A i \in 1 .. m : /\ g[m][i] = ResolvedRoute(declared[i], penv)
                               /\ g[m][i].target # Rejected
        BY <3>4, <3>7, <3>9, <3>10, <3>11 DEF new
      <3>13. ASSUME NEW i \in 1 .. m - 1
             PROVE  Apart(g[m][i].target, new.target) /\ Apart(new.target, g[m][i].target)
        <4> DEFINE other == g[m][i].target
        <4>1. i \in DOMAIN g[m - 1] /\ g[m - 1][i].target = other
          BY <3>1, <3>7, <3>9, <3>13, LenProperties
        <4>2. IF "port" \in DOMAIN new.target
              THEN ~("port" \in DOMAIN other /\ other.port = new.target.port)
              ELSE ~("path" \in DOMAIN other /\ other.path = new.target.path)
          BY <3>4, <4>1 DEF Claimed
        <4>3. DOMAIN new.target = {"path"} \/ DOMAIN new.target = {"host", "port"}
          BY <3>4, <3>6, TargetShape
        <4> HIDE DEF other
        <4> QED BY <4>2, <4>3 DEF Apart, other
      <3>14. \A i, k \in 1 .. m : i # k => Apart(g[m][i].target, g[m][k].target)
        BY <3>7, <3>9, <3>10, <3>11, <3>13
      <3> QED BY <2>2, <3>8, <3>12, <3>14
    <2> QED BY <2>3, <2>4
  <1>6. Right(g[last], last)
    BY <1>1, <1>2, <1>5 DEF last
  <1>7. DOMAIN g[last] = 1 .. last
    BY <1>6, LenProperties
  <1> QED BY <1>1, <1>6, <1>7 DEF declared, last

-----------------------------------------------------------------------------
(* All agree.                                                              *)

\* A manifest's services are a sequence, and so are the routes of each.
LEMMA ManifestIsSeq ==
  ASSUME NEW file, WellFormed(file), BuildManifest(file) # Rejected, NEW read,
         read = BuildManifest(file)
  PROVE  /\ Listed(read)
         /\ \A i \in DOMAIN read.services :
              /\ "env" \in DOMAIN read.services[i]
              /\ \A j \in DOMAIN read.services[i].routes :
                   \E l \in Nat : DOMAIN read.services[i].routes[j].hosts = 1 .. l
  <1> DEFINE parsed(i) == ParseService(file.services[i][1], file.services[i][2])
  <1>1. /\ Get(file, "services", Wrong) # Wrong
        /\ Has(file, "services")
        /\ read.services = [i \in DOMAIN file.services |-> parsed(i)]
        /\ \A i \in DOMAIN file.services : parsed(i) # Rejected
    BY ManifestBuilt DEF Get
  <1>2. IsSequence(file.services)
    BY <1>1 DEF WellFormed, IsArray
  <1>3. Len(file.services) \in Nat /\ DOMAIN file.services = 1 .. Len(file.services)
    BY <1>2, LenProperties DEF IsSequence
  <1>4. Len(read.services) = Len(file.services) /\ DOMAIN read.services = DOMAIN file.services
    <2> DEFINE all == {parsed(i) : i \in DOMAIN file.services}
    <2>1. \A i \in 1 .. Len(file.services) : parsed(i) \in all
      BY <1>3
    <2>2. read.services = [i \in 1 .. Len(file.services) |-> parsed(i)]
      BY <1>1, <1>3
    <2> HIDE DEF all, parsed
    <2>3. read.services \in Seq(all)
      BY <1>3, <2>1, <2>2, IsASeq
    <2> QED BY <1>3, <2>2, <2>3, LenProperties
  <1>5. ASSUME NEW i \in DOMAIN file.services
        PROVE  /\ "env" \in DOMAIN read.services[i]
               /\ \E l \in Nat : DOMAIN read.services[i].routes = 1 .. l
               /\ \A j \in DOMAIN read.services[i].routes :
                    \E l \in Nat : DOMAIN read.services[i].routes[j].hosts = 1 .. l
    <2> DEFINE raw == file.services[i][2]
    <2>1. read.services[i] = AsRead(file.services[i][1], raw) /\ parsed(i) # Rejected
      BY <1>1, <1>5, ServiceParsed
    <2>2. /\ raw # Wrong /\ Get(raw, "routes", <<>>) # Wrong
          /\ \A j \in DOMAIN ParsedRoutes(raw) : ParsedRoutes(raw)[j] # Rejected
      BY <2>1, ServiceParsed DEF OnlyKeys
    <2>3. /\ read.services[i].routes = ParsedRoutes(raw)
          /\ "env" \in DOMAIN read.services[i]
      BY <2>1 DEF AsRead
    <2>4. /\ DOMAIN ParsedRoutes(raw) = DOMAIN Get(raw, "routes", <<>>)
          /\ \A j \in DOMAIN ParsedRoutes(raw) :
               ParsedRoutes(raw)[j] = ParseRoute(raw.routes[j])
      BY <2>2 DEF ParsedRoutes
    <2> HIDE DEF raw
    <2>5. CASE Has(raw, "routes")
      <3>1. Get(raw, "routes", <<>>) = raw.routes /\ Get(raw, "routes", Wrong) # Wrong
        BY <2>2, <2>5 DEF Get
      <3>2. /\ IsSequence(raw.routes)
            /\ \A j \in DOMAIN raw.routes : raw.routes[j] # Wrong => IsArray(raw.routes[j], "hosts")
        BY <1>1, <1>5, <2>2, <3>1 DEF WellFormed, IsArray, raw
      <3>3. \E l \in Nat : DOMAIN raw.routes = 1 .. l
        BY <3>2, LenProperties DEF IsSequence
      <3>4. ASSUME NEW j \in DOMAIN raw.routes
            PROVE  \E l \in Nat : DOMAIN ParsedRoutes(raw)[j].hosts = 1 .. l
        <4> DEFINE route == raw.routes[j]
        <4>1. ParsedRoutes(raw)[j] = ParseRoute(route) /\ ParseRoute(route) # Rejected
          BY <2>2, <2>4, <3>1, <3>4
        <4>2. IsArray(route, "hosts") \/ route = Wrong
          BY <3>2, <3>4
        <4> HIDE DEF route
        <4>3. /\ route # Wrong /\ Has(route, "hosts") /\ route.hosts # Wrong
              /\ ParseRoute(route).hosts = route.hosts
          BY <4>1 DEF ParseRoute, OnlyKeys, TextList
        <4>4. IsSequence(route.hosts)
          BY <4>2, <4>3 DEF IsArray, Get
        <4> QED BY <4>1, <4>3, <4>4, LenProperties DEF IsSequence
      <3> QED BY <2>3, <2>4, <3>1, <3>3, <3>4
    <2>6. CASE ~Has(raw, "routes")
      <3>1. DOMAIN ParsedRoutes(raw) = 1 .. 0
        BY <2>4, <2>6 DEF Get
      <3> QED BY <2>3, <3>1
    <2> QED BY <2>5, <2>6
  <1> QED BY <1>3, <1>4, <1>5 DEF Listed

\* Whatever a file and the environment say, a child finds the values that its
\* command was given, and listens where its routes lead (ServiceManager::new,
\* resolve_routes, service_value).
THEOREM ValuesAgree == StartupSpec => []SameValueEverywhere
<1>1. StartupInv => SameValueEverywhere
  <2> SUFFICES ASSUME StartupInv, phase = "ready" PROVE SameValueEverywhere
    BY DEF SameValueEverywhere
  <2>1. PICK file, penv, read, resolved :
          /\ case.file = file /\ case.penv = penv /\ manifest = read /\ table = resolved
    OBVIOUS
  <2>2. WellFormed(file) /\ Valued(penv)
    BY <2>1, StartupAssumption DEF StartupInv, Valued
  <2>3. read = BuildManifest(file) /\ BuildManifest(file) # Rejected
    BY <2>1 DEF StartupInv, Accepted
  <2>4. resolved = ResolveRoutes(read, penv) /\ resolved # Rejected
    BY <2>1 DEF StartupInv, Accepted
  <2>5. /\ launches = [i \in DOMAIN read.services |-> Launch(read.services[i], penv)]
        /\ \A i \in DOMAIN read.services : launches[i] # Rejected
    BY <2>1 DEF StartupInv
  <2>6. Listed(read) /\ \A i \in DOMAIN read.services : "env" \in DOMAIN read.services[i]
    BY <2>2, <2>3, ManifestIsSeq
  <2>7. \A n \in DOMAIN resolved : resolved[n] = ResolvedRoute(Declared(read)[n], penv)
    <3>1. Len(Declared(read)) \in Nat
      BY <2>6, DeclaredIsSeq, LenProperties
    <3> QED BY <2>4, <3>1, ResolvedRight
  <2>8. ASSUME NEW i \in DOMAIN read.services, launches[i] # NoLaunch,
               AllUnicode(launches[i].env)
        PROVE  /\ launches[i].command = ResolveCommand(read.services[i].command, launches[i].env)
               /\ \A n \in DOMAIN resolved :
                    Declared(read)[n].service = read.services[i] =>
                      resolved[n].target =
                        Target([read.services[i] EXCEPT !.env = launches[i].env],
                               Declared(read)[n].route, <<>>)
    <3>1. PICK service : service = read.services[i]
      OBVIOUS
    <3> DEFINE child  == ChildEnv(service, penv)
               lookup == [key \in (DOMAIN penv) \cup (DOMAIN service.env) |->
                            ServiceValue(service, penv, key)]
    <3>2. /\ launches[i] = Launch(service, penv)
          /\ launches[i] # Rejected
      BY <2>5, <2>8, <3>1
    <3>3. launches[i] = [command |-> ResolveCommand(service.command, lookup), env |-> child]
      BY <2>8, <3>2 DEF Launch
    <3>4. AllUnicode(child)
      BY <2>8, <3>3
    <3>5. \A key : Get(child, key, Missing) = ServiceValue(service, penv, key)
      BY <2>2, <3>4, ChildFinds
    <3>6. \A key : Get(lookup, key, Missing) = Get(child, key, Missing)
      <4> TAKE key
      <4>1. DOMAIN lookup = DOMAIN child
        BY DEF ChildEnv
      <4>2. CASE key \in DOMAIN child
        <5>1. lookup[key] = ServiceValue(service, penv, key)
          BY <4>1, <4>2 DEF ChildEnv
        <5>2. Get(lookup, key, Missing) = lookup[key]
          BY <4>1, <4>2 DEF Get, Has
        <5> QED BY <3>5, <5>1, <5>2
      <4>3. CASE key \notin DOMAIN child
        BY <4>1, <4>3 DEF Get, Has
      <4> QED BY <4>2, <4>3
    <3> HIDE DEF child, lookup
    <3>7. launches[i].command = ResolveCommand(service.command, child)
      BY <3>3, <3>6, CommandSame
    <3>8. ASSUME NEW n \in DOMAIN resolved, Declared(read)[n].service = service
          PROVE  resolved[n].target =
                   Target([service EXCEPT !.env = child], Declared(read)[n].route, <<>>)
      <4>1. resolved[n].target = Target(service, Declared(read)[n].route, penv)
        BY <2>7, <3>8 DEF ResolvedRoute
      <4>2. "env" \in DOMAIN service
        BY <2>6, <2>8, <3>1
      <4> QED BY <2>2, <3>4, <4>1, <4>2, TargetSame DEF child
    <3> QED BY <3>1, <3>3, <3>7, <3>8
  <2>9. DOMAIN launches = DOMAIN read.services
    BY <2>5
  <2> QED BY <2>1, <2>8, <2>9 DEF SameValueEverywhere, AllUnicode
<1> QED BY <1>1, StartupInvariance, PTL

-----------------------------------------------------------------------------
(* Sequences put together: FlattenSeq.                                     *)

\* g is what FlattenSeq computes of the first n sequences.
FlattenTo(g, seqs, n) ==
  g = [i \in 1 .. n |-> IF i = 1 THEN seqs[i] ELSE g[i - 1] \o seqs[i]]

\* The recursion of FlattenSeq has a solution.
LEMMA FlattenExists ==
  ASSUME NEW seqs, NEW n \in Nat \ {0}
  PROVE  \E g : FlattenTo(g, seqs, n)
  <1> DEFINE Bad == {k \in Nat \ {0} : ~ \E g : FlattenTo(g, seqs, k)}
  <1>1. ASSUME Bad # {} PROVE FALSE
    <2>1. PICK m \in Bad : \A k \in Bad : m <= k
      BY <1>1, Least
    <2>2. m \in Nat \ {0} /\ ~ \E g : FlattenTo(g, seqs, m)
      BY <2>1
    <2>3. CASE m = 1
      <3> DEFINE h == [i \in 1 .. 1 |-> seqs[1]]
      <3>1. \A i \in 1 .. 1 : i = 1
        OBVIOUS
      <3>2. FlattenTo(h, seqs, 1)
        BY <3>1 DEF FlattenTo
      <3> HIDE DEF h
      <3> QED BY <2>2, <2>3, <3>2
    <2>4. CASE m # 1
      <3>0. m - 1 \in Nat \ {0} /\ m - 1 < m
        BY <2>2, <2>4
      <3>1. PICK g : FlattenTo(g, seqs, m - 1)
        BY <2>1, <2>2, <3>0
      <3> DEFINE h == [i \in 1 .. m |-> IF i = m THEN g[m - 1] \o seqs[m] ELSE g[i]]
      <3>2. \A i \in 1 .. m - 1 :
              h[i] = g[i] /\ g[i] = IF i = 1 THEN seqs[i] ELSE g[i - 1] \o seqs[i]
        <4> TAKE i \in 1 .. m - 1
        <4>1. i \in 1 .. m /\ i # m
          BY <2>2
        <4> QED BY <3>1, <4>1 DEF FlattenTo
      <3>3. h[m] = g[m - 1] \o seqs[m] /\ h = [i \in 1 .. m |-> h[i]]
        <4>1. m \in 1 .. m
          BY <2>2
        <4> QED BY <4>1
      <3> HIDE DEF h
      <3>4. \A i \in 1 .. m : h[i] = IF i = 1 THEN seqs[i] ELSE h[i - 1] \o seqs[i]
        <4> TAKE i \in 1 .. m
        <4>1. CASE i = m
          <5>1. h[m - 1] = g[m - 1]
            BY <2>2, <3>0, <3>2
          <5> QED BY <2>2, <2>4, <3>3, <4>1, <5>1
        <4>2. CASE i # m
          <5>1. i \in 1 .. m - 1 /\ (i # 1 => i - 1 \in 1 .. m - 1)
            BY <2>2, <4>2
          <5> QED BY <3>2, <5>1
        <4> QED BY <4>1, <4>2
      <3>5. FlattenTo(h, seqs, m)
        BY <3>3, <3>4 DEF FlattenTo
      <3> QED BY <2>2, <3>5
    <2> QED BY <2>3, <2>4
  <1> QED BY <1>1

\* FlattenSeq's result is its last value.
LEMMA FlattenIs ==
  ASSUME NEW seqs, Len(seqs) \in Nat \ {0}
  PROVE  \E g : FlattenTo(g, seqs, Len(seqs)) /\ FlattenSeq(seqs) = g[Len(seqs)]
  <1> DEFINE flatten[i \in 1 .. Len(seqs)] ==
               IF i = 1 THEN seqs[i] ELSE flatten[i - 1] \o seqs[i]
  <1>1. FlattenSeq(seqs) = flatten[Len(seqs)]
    BY DEF FlattenSeq
  <1>2. \E g : g = [i \in 1 .. Len(seqs) |-> IF i = 1 THEN seqs[i] ELSE g[i - 1] \o seqs[i]]
    BY FlattenExists DEF FlattenTo
  <1>3. flatten = [i \in 1 .. Len(seqs) |->
                     IF i = 1 THEN seqs[i] ELSE flatten[i - 1] \o seqs[i]]
    BY <1>2
  <1> HIDE DEF flatten
  <1> QED BY <1>1, <1>3 DEF FlattenTo

-----------------------------------------------------------------------------
(* A host finds the first route that it names, or whose pattern it matches.*)

\* The set's least member is what Min chooses.
LEMMA MinIs ==
  ASSUME NEW S \in SUBSET Nat, S # {}
  PROVE  Min(S) \in S /\ \A k \in S : Min(S) <= k
  <1>1. \E m \in S : \A k \in S : m <= k
    BY Least
  <1> QED BY <1>1 DEF Min

\* A table of n routes, each with a sequence of hosts.
Hosted(entries, n) ==
  /\ DOMAIN entries = 1 .. n
  /\ \A i \in 1 .. n : \E l \in Nat : DOMAIN entries[i].hosts = 1 .. l

PatternOf(entries, i, j) == [host |-> Lower(entries[i].hosts[j]), index |-> i]

\* The patterns of the first n routes: all of their hosts, the routes in order.
ListsHosts(patterns, entries, n) ==
  /\ \A k \in 1 .. Len(patterns) :
       \E i \in 1 .. n : \E j \in DOMAIN entries[i].hosts : patterns[k] = PatternOf(entries, i, j)
  /\ \A k, l \in 1 .. Len(patterns) : k <= l => patterns[k].index <= patterns[l].index
  /\ \A i \in 1 .. n : \A j \in DOMAIN entries[i].hosts :
       \E k \in 1 .. Len(patterns) : patterns[k] = PatternOf(entries, i, j)

\* The hosts of one more route come last.
LEMMA ListsOneMore ==
  ASSUME NEW P, NEW before \in Seq(P), NEW added \in Seq(P), NEW entries, NEW n \in Nat \ {0},
         ListsHosts(before, entries, n - 1),
         DOMAIN added = DOMAIN entries[n].hosts,
         \A j \in DOMAIN added : added[j] = PatternOf(entries, n, j)
  PROVE  before \o added \in Seq(P) /\ ListsHosts(before \o added, entries, n)
  <1> DEFINE all == before \o added
             b == Len(before)
             a == Len(added)
  <1>1. b \in Nat /\ a \in Nat /\ DOMAIN added = 1 .. a
    BY LenProperties
  <1>2. all \in Seq(P) /\ Len(all) = b + a
    BY ConcatProperties
  <1>3. \A k \in 1 .. b + a : all[k] = IF k <= b THEN before[k] ELSE added[k - b]
    BY ConcatProperties
  <1> HIDE DEF all, b, a
  <1>4. \A k \in 1 .. b : all[k] = before[k]
    BY <1>1, <1>3
  <1>5. \A j \in 1 .. a : b + j \in 1 .. b + a /\ all[b + j] = PatternOf(entries, n, j)
    <2> TAKE j \in 1 .. a
    <2>1. b + j \in 1 .. b + a /\ ~(b + j <= b) /\ b + j - b = j
      BY <1>1
    <2> QED BY <1>1, <1>3, <2>1
  <1>6. \A k \in 1 .. b + a : k \in 1 .. b \/ \E j \in 1 .. a : k = b + j
    <2> TAKE k \in 1 .. b + a
    <2>1. CASE k > b
      <3>1. k - b \in 1 .. a /\ k = b + (k - b)
        BY <1>1, <2>1
      <3> QED BY <3>1
    <2> QED BY <1>1, <2>1
  <1>7. /\ \A i \in 1 .. n - 1 : i \in 1 .. n /\ i < n
        /\ n \in 1 .. n
        /\ \A i \in 1 .. n : i \in 1 .. n - 1 \/ i = n
    OBVIOUS
  <1>8. /\ \A k \in 1 .. b : before[k].index \in 1 .. n - 1
        /\ \A j \in 1 .. a : all[b + j].index = n
    <2>1. \A k \in 1 .. b : before[k].index \in 1 .. n - 1
      <3> TAKE k \in 1 .. b
      <3>1. PICK i \in 1 .. n - 1 :
              \E j \in DOMAIN entries[i].hosts : before[k] = PatternOf(entries, i, j)
        BY DEF ListsHosts, b
      <3> QED BY <3>1 DEF PatternOf
    <2>2. \A j \in 1 .. a : all[b + j].index = n
      <3> TAKE j \in 1 .. a
      <3>1. PatternOf(entries, n, j).index = n
        BY DEF PatternOf
      <3> QED BY <1>5, <3>1
    <2> QED BY <2>1, <2>2
  <1>9. ASSUME NEW k \in 1 .. b + a
        PROVE  \E i \in 1 .. n : \E j \in DOMAIN entries[i].hosts : all[k] = PatternOf(entries, i, j)
    <2>1. CASE k \in 1 .. b
      <3>1. PICK i \in 1 .. n - 1 :
              \E j \in DOMAIN entries[i].hosts : before[k] = PatternOf(entries, i, j)
        BY <2>1 DEF ListsHosts, b
      <3> QED BY <1>4, <1>7, <2>1, <3>1
    <2>2. CASE \E j \in 1 .. a : k = b + j
      BY <1>1, <1>5, <1>7, <2>2
    <2> QED BY <1>6, <2>1, <2>2
  <1>10. ASSUME NEW k \in 1 .. b + a, NEW l \in 1 .. b + a, k <= l
         PROVE  all[k].index <= all[l].index
    <2>1. CASE l \in 1 .. b
      <3>1. k \in 1 .. b
        BY <1>1, <1>10, <2>1
      <3> QED BY <1>4, <1>10, <2>1, <3>1 DEF ListsHosts, b
    <2>2. CASE \E j \in 1 .. a : l = b + j
      <3>1. all[l].index = n
        BY <1>8, <2>2
      <3>2. all[k].index \in 1 .. n - 1 \/ all[k].index = n
        BY <1>4, <1>6, <1>8
      <3> QED BY <3>1, <3>2
    <2> QED BY <1>6, <2>1, <2>2
  <1>11. ASSUME NEW i \in 1 .. n, NEW j \in DOMAIN entries[i].hosts
         PROVE  \E k \in 1 .. b + a : all[k] = PatternOf(entries, i, j)
    <2>1. CASE i \in 1 .. n - 1
      <3>1. PICK k \in 1 .. b : before[k] = PatternOf(entries, i, j)
        BY <1>11, <2>1 DEF ListsHosts, b
      <3>2. k \in 1 .. b + a
        BY <1>1
      <3> QED BY <1>4, <3>1, <3>2
    <2>2. CASE i = n
      BY <1>1, <1>5, <1>11, <2>2
    <2> QED BY <1>7, <2>1, <2>2
  <1>12. ListsHosts(all, entries, n)
    BY <1>2, <1>9, <1>10, <1>11 DEF ListsHosts
  <1> QED BY <1>2, <1>12 DEF all

\* Patterns has the hosts of every route, and nothing else.
LEMMA PatternsRight ==
  ASSUME NEW entries, NEW n \in Nat, Hosted(entries, n)
  PROVE  /\ Len(Patterns(entries)) \in Nat
         /\ DOMAIN Patterns(entries) = 1 .. Len(Patterns(entries))
         /\ ListsHosts(Patterns(entries), entries, n)
  <1> DEFINE P == {PatternOf(entries, p[1], p[2]) : p \in (1 .. n) \X Nat}
             seqs == [i \in DOMAIN entries |->
                        [j \in DOMAIN entries[i].hosts |->
                           [host |-> Lower(entries[i].hosts[j]), index |-> i]]]
  <1>1. Patterns(entries) = FlattenSeq(seqs)
    BY DEF Patterns
  <1>2. ASSUME NEW i \in 1 .. n
        PROVE  /\ seqs[i] \in Seq(P)
               /\ DOMAIN seqs[i] = DOMAIN entries[i].hosts
               /\ \A j \in DOMAIN seqs[i] : seqs[i][j] = PatternOf(entries, i, j)
    <2>1. PICK l \in Nat : DOMAIN entries[i].hosts = 1 .. l
      BY <1>2 DEF Hosted
    <2>2. seqs[i] = [j \in 1 .. l |-> PatternOf(entries, i, j)]
      BY <1>2, <2>1 DEF Hosted, PatternOf
    <2>3. \A j \in 1 .. l : PatternOf(entries, i, j) \in P
      <3> TAKE j \in 1 .. l
      <3>1. <<i, j>> \in (1 .. n) \X Nat /\ <<i, j>>[1] = i /\ <<i, j>>[2] = j
        BY <1>2
      <3> QED BY <3>1
    <2> HIDE DEF P, seqs
    <2>4. seqs[i] \in Seq(P)
      BY <2>2, <2>3, IsASeq
    <2> QED BY <2>1, <2>2, <2>4
  <1>3. DOMAIN seqs = 1 .. n /\ seqs = [i \in 1 .. n |-> seqs[i]]
    BY DEF Hosted
  <1> HIDE DEF P, seqs
  <1>4. seqs \in Seq(Seq(P)) /\ Len(seqs) = n
    <2>1. seqs \in Seq(Seq(P))
      BY <1>2, <1>3, IsASeq
    <2> QED BY <1>3, <2>1, LenProperties
  <1>5. CASE n = 0
    <2>1. Patterns(entries) = seqs
      BY <1>1, <1>4, <1>5 DEF FlattenSeq
    <2> QED BY <1>3, <1>4, <1>5, <2>1 DEF ListsHosts
  <1>6. CASE n # 0
    <2>1. PICK g : FlattenTo(g, seqs, n) /\ FlattenSeq(seqs) = g[n]
      BY <1>4, <1>6, FlattenIs
    <2>2. \A i \in 1 .. n : g[i] = IF i = 1 THEN seqs[i] ELSE g[i - 1] \o seqs[i]
      BY <2>1 DEF FlattenTo
    <2> DEFINE Bad == {i \in 1 .. n : ~ (g[i] \in Seq(P) /\ ListsHosts(g[i], entries, i))}
    <2>3. ASSUME Bad # {} PROVE FALSE
      <3>0. Bad \in SUBSET Nat /\ Bad # {}
        BY <2>3
      <3>1. PICK m \in Bad : \A k \in Bad : m <= k
        <4> HIDE DEF Bad
        <4> QED BY <3>0, Least
      <3>2. m \in 1 .. n /\ ~ (g[m] \in Seq(P) /\ ListsHosts(g[m], entries, m))
        BY <3>1
      <3>3. CASE m = 1
        <4> DEFINE none == <<>>
        <4>1. none \in Seq(P) /\ Len(none) = 0
          BY EmptySeq
        <4>2. ListsHosts(none, entries, 1 - 1)
          BY <4>1 DEF ListsHosts
        <4> HIDE DEF none
        <4>3. ListsHosts(none \o seqs[1], entries, 1)
          <5>1. 1 \in 1 .. n /\ 1 \in Nat \ {0}
            BY <3>2, <3>3
          <5>2. /\ seqs[1] \in Seq(P)
                /\ DOMAIN seqs[1] = DOMAIN entries[1].hosts
                /\ \A j \in DOMAIN seqs[1] : seqs[1][j] = PatternOf(entries, 1, j)
            BY <1>2, <5>1
          <5> QED BY <4>1, <4>2, <5>1, <5>2, ListsOneMore
        <4>4. none \o seqs[1] = seqs[1]
          BY <1>2, <3>2, <3>3, ConcatEmptySeq DEF none
        <4> QED BY <1>2, <2>2, <3>2, <3>3, <4>3, <4>4
      <3>4. CASE m # 1
        <4>1. m - 1 \in 1 .. n /\ m - 1 < m /\ m \in Nat \ {0}
          BY <3>2, <3>4
        <4>2. g[m - 1] \in Seq(P) /\ ListsHosts(g[m - 1], entries, m - 1)
          BY <3>1, <4>1
        <4>3. g[m] = g[m - 1] \o seqs[m]
          BY <2>2, <3>2, <3>4
        <4> QED BY <1>2, <3>2, <4>1, <4>2, <4>3, ListsOneMore
      <3> QED BY <3>3, <3>4
    <2>4. g[n] \in Seq(P) /\ ListsHosts(g[n], entries, n)
      BY <1>6, <2>3
    <2> QED BY <1>1, <2>1, <2>4, LenProperties
  <1> QED BY <1>5, <1>6

\* The routes of a table that name a host, and those with a pattern for it.
Naming(entries, host) ==
  {i \in DOMAIN entries : \E j \in DOMAIN entries[i].hosts :
     /\ ~IsWildcardHost(entries[i].hosts[j])
     /\ Lower(entries[i].hosts[j]) = Lower(host)}

Fitting(entries, host) ==
  {i \in DOMAIN entries : \E j \in DOMAIN entries[i].hosts :
     /\ IsWildcardHost(entries[i].hosts[j])
     /\ <<Lower(entries[i].hosts[j]), Lower(host)>> \in Globbed}

Best(entries, host) ==
  IF Naming(entries, host) # {} THEN Naming(entries, host) ELSE Fitting(entries, host)

\* A host is a pattern in lower case if it is one.
LEMMA LowerWildcard ==
  ASSUME NEW host
  PROVE  IsWildcardHost(Lower(host)) <=> IsWildcardHost(host)
  <1>1. DOMAIN Lower(host) = DOMAIN host
    BY DEF Lower
  <1>2. \A i \in DOMAIN host : Lower(host)[i] \in Wildcards <=> host[i] \in Wildcards
    BY LowerAssumption DEF Lower, Get, Has
  <1> QED BY <1>1, <1>2 DEF IsWildcardHost

\* The first pattern of a set is one of the least route in it.
LEMMA FirstIsLeast ==
  ASSUME NEW entries, NEW n \in Nat, NEW patterns, Len(patterns) \in Nat,
         ListsHosts(patterns, entries, n),
         NEW found \in SUBSET (1 .. Len(patterns)), found # {}
  PROVE  \A k \in found : patterns[Min(found)].index <= patterns[k].index
  <1>1. Min(found) \in found /\ \A k \in found : Min(found) <= k
    BY MinIs
  <1> QED BY <1>1 DEF ListsHosts

\* Find finds the least of the routes that name the host, else of those with a
\* pattern for it.
LEMMA FindRight ==
  ASSUME NEW entries, NEW n \in Nat, Hosted(entries, n), NEW host
  PROVE  IF Best(entries, host) = {} THEN Find(entries, host) = 0
         ELSE /\ Find(entries, host) \in Best(entries, host)
              /\ \A m \in Best(entries, host) : Find(entries, host) <= m
  <1> DEFINE patterns == Patterns(entries)
             exact    == {k \in DOMAIN patterns : ~IsWildcardHost(patterns[k].host)}
             named    == {k \in exact : patterns[k].host = Lower(host)}
             matched  == {k \in (DOMAIN patterns) \ exact :
                            <<patterns[k].host, Lower(host)>> \in Globbed}
             found    == IF named # {} THEN named ELSE matched
  <1>1. Find(entries, host) = IF found = {} THEN 0 ELSE patterns[Min(found)].index
    BY DEF Find
  <1>2. /\ Len(patterns) \in Nat /\ DOMAIN patterns = 1 .. Len(patterns)
        /\ ListsHosts(patterns, entries, n)
        /\ DOMAIN entries = 1 .. n
    BY PatternsRight DEF Hosted
  <1> HIDE DEF patterns
  <1>3. ASSUME NEW k \in DOMAIN patterns
        PROVE  \E i \in DOMAIN entries : \E j \in DOMAIN entries[i].hosts :
                 /\ patterns[k].index = i
                 /\ patterns[k].host = Lower(entries[i].hosts[j])
                 /\ IsWildcardHost(patterns[k].host) <=> IsWildcardHost(entries[i].hosts[j])
    <2>1. PICK i \in 1 .. n :
            \E j \in DOMAIN entries[i].hosts : patterns[k] = PatternOf(entries, i, j)
      BY <1>2, <1>3 DEF ListsHosts
    <2>2. PICK j \in DOMAIN entries[i].hosts : patterns[k] = PatternOf(entries, i, j)
      BY <2>1
    <2>3. patterns[k].index = i /\ patterns[k].host = Lower(entries[i].hosts[j])
      BY <2>2 DEF PatternOf
    <2> QED BY <1>2, <2>3, LowerWildcard
  <1>4. ASSUME NEW i \in DOMAIN entries, NEW j \in DOMAIN entries[i].hosts
        PROVE  \E k \in DOMAIN patterns :
                 /\ patterns[k].index = i
                 /\ patterns[k].host = Lower(entries[i].hosts[j])
                 /\ IsWildcardHost(patterns[k].host) <=> IsWildcardHost(entries[i].hosts[j])
    <2>1. PICK k \in DOMAIN patterns : patterns[k] = PatternOf(entries, i, j)
      BY <1>2, <1>4 DEF ListsHosts
    <2>2. patterns[k].index = i /\ patterns[k].host = Lower(entries[i].hosts[j])
      BY <2>1 DEF PatternOf
    <2> QED BY <2>2, LowerWildcard
  <1>5. Naming(entries, host) = {patterns[k].index : k \in named}
    <2>1. ASSUME NEW i \in Naming(entries, host) PROVE \E k \in named : patterns[k].index = i
      <3>1. PICK j \in DOMAIN entries[i].hosts :
              /\ i \in DOMAIN entries
              /\ ~IsWildcardHost(entries[i].hosts[j])
              /\ Lower(entries[i].hosts[j]) = Lower(host)
        BY <2>1 DEF Naming
      <3> QED BY <1>4, <3>1
    <2>2. ASSUME NEW k \in named PROVE patterns[k].index \in Naming(entries, host)
      BY <1>3, <2>2 DEF Naming
    <2> QED BY <2>1, <2>2
  <1>6. Fitting(entries, host) = {patterns[k].index : k \in matched}
    <2>1. ASSUME NEW i \in Fitting(entries, host) PROVE \E k \in matched : patterns[k].index = i
      <3>1. PICK j \in DOMAIN entries[i].hosts :
              /\ i \in DOMAIN entries
              /\ IsWildcardHost(entries[i].hosts[j])
              /\ <<Lower(entries[i].hosts[j]), Lower(host)>> \in Globbed
        BY <2>1 DEF Fitting
      <3> QED BY <1>4, <3>1
    <2>2. ASSUME NEW k \in matched PROVE patterns[k].index \in Fitting(entries, host)
      BY <1>3, <2>2 DEF Fitting
    <2> QED BY <2>1, <2>2
  <1>7. /\ named \subseteq DOMAIN patterns
        /\ matched \subseteq DOMAIN patterns
    OBVIOUS
  <1> HIDE DEF named, matched, exact
  <1>8. Best(entries, host) = {patterns[k].index : k \in found}
    BY <1>5, <1>6 DEF Best
  <1>9. found \in SUBSET (1 .. Len(patterns)) /\ found \in SUBSET Nat
    BY <1>2, <1>7
  <1> HIDE DEF found
  <1>10. CASE found = {}
    BY <1>1, <1>8, <1>10
  <1>11. CASE found # {}
    <2>1. Min(found) \in found
      BY <1>9, <1>11, MinIs
    <2>2. \A k \in found : patterns[Min(found)].index <= patterns[k].index
      BY <1>2, <1>9, <1>11, FirstIsLeast
    <2> QED BY <1>1, <1>8, <1>11, <2>1, <2>2
  <1> QED BY <1>10, <1>11

-----------------------------------------------------------------------------
(* The host that a request means is the one that is looked for.            *)

\* Of what a request says, the host that it means is left.
LEMMA HostIsMeant ==
  ASSUME NEW r, WellMeant(r)
  PROVE  RequestHost(r) = r.meant
  <1> DEFINE text == RawHost(r)
             meant == r.meant
             end == Len(meant)
             at(c) == {i \in DOMAIN text : text[i] = c}
  <1>1. /\ IsSequence(text) /\ IsSequence(meant) /\ end <= Len(text)
        /\ \A i \in 1 .. end : text[i] = meant[i]
        /\ end < Len(text) => text[end + 1] = ":" /\ \A i \in end + 2 .. Len(text) : text[i] # ":"
        /\ IF meant # <<>> /\ meant[1] = "["
           THEN \A i \in 1 .. end : meant[i] = "]" <=> i = end
           ELSE \A i \in 1 .. end : meant[i] # ":"
    BY DEF WellMeant
  <1>2. RequestHost(r) = IF text # <<>> /\ Head(text) = "["
                         THEN IF at("]") = {} THEN text ELSE SubSeq(text, 1, Min(at("]")))
                         ELSE IF at(":") = {} THEN text ELSE SubSeq(text, 1, Max(at(":")) - 1)
    BY DEF RequestHost, StripPort
  <1> HIDE DEF text, meant
  <1>3. /\ Len(text) \in Nat /\ DOMAIN text = 1 .. Len(text) /\ end \in Nat
        /\ DOMAIN meant = 1 .. end
        /\ text = [i \in 1 .. Len(text) |-> text[i]] /\ meant = [i \in 1 .. end |-> meant[i]]
        /\ meant = <<>> <=> end = 0
        /\ text = <<>> <=> Len(text) = 0
    BY <1>1, LenProperties, EmptySeq DEF IsSequence
  <1> HIDE DEF end
  <1>4. SubSeq(text, 1, end) = meant
    <2>1. SubSeq(text, 1, end) = [i \in 1 .. end |-> text[i]]
      BY <1>1, <1>3 DEF IsSequence
    <2> QED BY <1>1, <1>3, <2>1
  <1>5. end = Len(text) => text = meant
    BY <1>1, <1>3
  <1>6. text # <<>> => Head(text) = text[1]
    BY <1>1 DEF IsSequence
  <1>7. CASE end # 0 /\ meant[1] = "["
    <2>1. text # <<>> /\ Head(text) = "["
      BY <1>1, <1>3, <1>6, <1>7
    <2>2. end \in at("]") /\ \A i \in at("]") : end <= i
      BY <1>1, <1>3, <1>7
    <2>3. Min(at("]")) = end
      <3>1. at("]") \in SUBSET Nat /\ at("]") # {}
        BY <1>3, <2>2
      <3>2. Min(at("]")) \in at("]") /\ \A k \in at("]") : Min(at("]")) <= k
        BY <3>1, MinIs
      <3>3. Min(at("]")) <= end /\ end <= Min(at("]")) /\ Min(at("]")) \in Nat
        <4> HIDE DEF at
        <4> QED BY <2>2, <3>1, <3>2
      <3> HIDE DEF at
      <3> QED BY <1>3, <3>3
    <2> QED BY <1>2, <1>4, <2>1, <2>2, <2>3 DEF meant
  <1>8. CASE ~(end # 0 /\ meant[1] = "[")
    <2>1. ~(text # <<>> /\ Head(text) = "[")
      <3>1. CASE end = 0
        <4>1. text # <<>> => text[1] = ":"
          BY <1>1, <1>3, <3>1
        <4> QED BY <1>6, <4>1
      <3>2. CASE end # 0
        BY <1>1, <1>3, <1>6, <1>8, <3>2
      <3> QED BY <3>1, <3>2
    <2>2. \A i \in 1 .. end : text[i] # ":"
      BY <1>1, <1>3, <1>8
    <2>3. CASE end = Len(text)
      <3>1. at(":") = {}
        BY <1>3, <2>2, <2>3
      <3> QED BY <1>2, <1>5, <2>1, <2>3, <3>1 DEF meant
    <2>4. CASE end < Len(text)
      <3>1. at(":") = {end + 1}
        BY <1>1, <1>3, <2>2, <2>4
      <3>2. Max(at(":")) = end + 1
        BY <1>3, <3>1 DEF Max
      <3>3. Max(at(":")) - 1 = end
        BY <1>3, <3>2
      <3> QED BY <1>2, <1>4, <2>1, <3>1, <3>3 DEF meant
    <2> QED BY <1>1, <1>3, <2>3, <2>4
  <1> QED BY <1>7, <1>8

-----------------------------------------------------------------------------
(* A request goes where the file sends it.                                 *)

\* Whatever hosts and patterns a file declares and whatever case and port a
\* request has, it goes to the first route that names its host, else to the first
\* with a pattern for it; no two routes lead to one place, and none to a disabled
\* service (HostMatcher, resolve_routes, ProxyService::handle).
THEOREM RequestsGoAsDeclared == StartupSpec => []RouteAsDeclared
<1>1. StartupInv => RouteAsDeclared
  <2> SUFFICES ASSUME StartupInv, phase = "serving" PROVE RouteAsDeclared
    BY DEF RouteAsDeclared
  <2>1. PICK file, penv, read, entries, r, given :
          /\ case.file = file /\ case.penv = penv /\ manifest = read
          /\ table = entries /\ request = r /\ answer = given
    OBVIOUS
  <2>2. WellFormed(file) /\ WellMeant(r) /\ given = Answer(entries, r)
    BY <2>1, StartupAssumption DEF StartupInv
  <2>3. read = BuildManifest(file) /\ BuildManifest(file) # Rejected
    BY <2>1 DEF StartupInv, Accepted
  <2>4. entries = ResolveRoutes(read, penv) /\ entries # Rejected
    BY <2>1 DEF StartupInv, Accepted
  <2> DEFINE routes == Declared(read)
             n == Len(routes)
             host == RequestHost(r)
  <2>5. /\ Listed(read)
        /\ \A i \in DOMAIN read.services : \A j \in DOMAIN read.services[i].routes :
             \E l \in Nat : DOMAIN read.services[i].routes[j].hosts = 1 .. l
    BY <2>2, <2>3, ManifestIsSeq
  <2>6. routes \in Seq(EnabledRoutes(read)) /\ n \in Nat /\ DOMAIN routes = 1 .. n
    BY <2>5, DeclaredIsSeq, LenProperties
  <2>7. /\ DOMAIN entries = 1 .. n
        /\ \A i \in DOMAIN entries : entries[i] = ResolvedRoute(routes[i], penv)
        /\ \A i, k \in DOMAIN entries : i # k => Apart(entries[i].target, entries[k].target)
    BY <2>4, <2>6, ResolvedRight
  <2>8. host = r.meant
    BY <2>2, HostIsMeant
  <2> HIDE DEF routes, n, host
  <2>9. ASSUME NEW i \in 1 .. n
        PROVE  /\ ~routes[i].service.disabled
               /\ entries[i].hosts = routes[i].route.hosts
               /\ entries[i].target = Target(routes[i].service, routes[i].route, penv)
               /\ \E l \in Nat : DOMAIN entries[i].hosts = 1 .. l
    <3>1. routes[i] \in EnabledRoutes(read)
      BY <2>6, <2>9, ElementOfSeq
    <3>2. PICK p \in Enabled(read) :
            routes[i] = [service |-> read.services[p[1]],
                         route |-> read.services[p[1]].routes[p[2]]]
      BY <3>1 DEF EnabledRoutes
    <3>3. /\ p[1] \in DOMAIN read.services /\ p[2] \in DOMAIN read.services[p[1]].routes
          /\ ~read.services[p[1]].disabled
      BY <2>5 DEF Enabled, Listed
    <3>4. /\ entries[i].hosts = routes[i].route.hosts
          /\ entries[i].target = Target(routes[i].service, routes[i].route, penv)
      BY <2>7, <2>9 DEF ResolvedRoute
    <3>5. /\ routes[i].service = read.services[p[1]]
          /\ routes[i].route = read.services[p[1]].routes[p[2]]
      BY <3>2
    <3>6. \E l \in Nat : DOMAIN entries[i].hosts = 1 .. l
      <4>1. \E l \in Nat : DOMAIN read.services[p[1]].routes[p[2]].hosts = 1 .. l
        BY <2>5, <3>3
      <4> QED BY <3>4, <3>5, <4>1
    <3>7. ~routes[i].service.disabled
      BY <3>3, <3>5
    <3> QED BY <3>4, <3>6, <3>7
  <2>10. Hosted(entries, n)
    BY <2>7, <2>9 DEF Hosted
  <2>11. IF Best(entries, host) = {} THEN Find(entries, host) = 0
         ELSE /\ Find(entries, host) \in Best(entries, host)
              /\ \A m \in Best(entries, host) : Find(entries, host) <= m
    BY <2>6, <2>10, FindRight
  <2>12. Best(entries, host) \subseteq 1 .. n
    BY <2>7 DEF Best, Naming, Fitting
  <2> DEFINE Names(i) == \E k \in DOMAIN routes[i].route.hosts :
                           /\ ~IsWildcardHost(routes[i].route.hosts[k])
                           /\ Lower(routes[i].route.hosts[k]) = Lower(r.meant)
             Fits(i)  == \E k \in DOMAIN routes[i].route.hosts :
                           /\ IsWildcardHost(routes[i].route.hosts[k])
                           /\ <<Lower(routes[i].route.hosts[k]), Lower(r.meant)>> \in Globbed
             named    == {i \in DOMAIN routes : Names(i)}
             fitting  == {i \in DOMAIN routes : Fits(i)}
  <2>13. named = Naming(entries, host) /\ fitting = Fitting(entries, host)
    BY <2>6, <2>7, <2>8, <2>9 DEF Naming, Fitting
  <2>14. /\ given = IF Lower(host) = Localhost THEN Portal
                    ELSE IF Find(entries, host) = 0 THEN NotFound
                    ELSE Forward(entries[Find(entries, host)])
         /\ Portal # NotFound
         /\ \A entry : /\ Forward(entry) # Portal /\ Forward(entry) # NotFound
                       /\ Forward(entry).target = entry.target
    BY <2>2 DEF Answer, Portal, NotFound, Forward, host
  <2> HIDE DEF named, fitting
  <2>15. given = Portal <=> Lower(r.meant) = Localhost
    BY <2>8, <2>14
  <2>16. Find(entries, host) = 0 <=> named \cup fitting = {}
    BY <2>6, <2>11, <2>12, <2>13 DEF Best
  <2>17. given = NotFound <=> given # Portal /\ named \cup fitting = {}
    BY <2>14, <2>16
  <2>18. ASSUME given \notin {Portal, NotFound}
         PROVE  \E i \in IF named # {} THEN named ELSE fitting :
                  /\ \A m \in IF named # {} THEN named ELSE fitting : i <= m
                  /\ given.target = Target(routes[i].service, routes[i].route, penv)
                  /\ ~routes[i].service.disabled
    <3>1. Find(entries, host) # 0 /\ given = Forward(entries[Find(entries, host)])
      BY <2>14, <2>18
    <3>2. /\ Find(entries, host) \in Best(entries, host)
          /\ \A m \in Best(entries, host) : Find(entries, host) <= m
      BY <2>11, <3>1
    <3>3. Best(entries, host) = IF named # {} THEN named ELSE fitting
      BY <2>13 DEF Best
    <3>4. given.target = entries[Find(entries, host)].target
      BY <2>14, <3>1
    <3> QED BY <2>9, <2>12, <3>2, <3>3, <3>4
  <2>19. ASSUME NEW i \in DOMAIN entries, NEW k \in DOMAIN entries, i # k
         PROVE  /\ entries[i].target # entries[k].target
                /\ Has(entries[i].target, "port") /\ Has(entries[k].target, "port") =>
                     entries[i].target.port # entries[k].target.port
    BY <2>7, <2>19 DEF Apart, Has
  <2> QED BY <2>1, <2>15, <2>17, <2>18, <2>19 DEF RouteAsDeclared, named, fitting, routes
<1> QED BY <1>1, StartupInvariance, PTL

-----------------------------------------------------------------------------
(* Sequences put together, one after the other.                            *)

\* h is what has been put together after each of a sequence of sequences.
Flattens(h, seqs, S) ==
  /\ h[0] = <<>>
  /\ \A i \in 1 .. Len(seqs) : h[i] = h[i - 1] \o seqs[i]
  /\ \A i \in 0 .. Len(seqs) : h[i] \in Seq(S)
  /\ FlattenSeq(seqs) = h[Len(seqs)]

\* FlattenSeq of typed sequences, from the empty one on.
LEMMA FlattenSteps ==
  ASSUME NEW S, NEW seqs \in Seq(Seq(S))
  PROVE  \E h : Flattens(h, seqs, S)
  <1> DEFINE n == Len(seqs)
  <1>1. n \in Nat /\ \A i \in 1 .. n : seqs[i] \in Seq(S)
    BY LenProperties, ElementOfSeq
  <1>2. CASE n = 0
    <2> DEFINE h == [i \in 0 .. 0 |-> <<>>]
    <2>1. h[0] = <<>> /\ \A i \in 0 .. 0 : h[i] = <<>>
      OBVIOUS
    <2>2. seqs = <<>>
      BY <1>2
    <2>3. FlattenSeq(seqs) = <<>>
      BY <1>2, <2>2 DEF FlattenSeq
    <2>4. <<>> \in Seq(S)
      BY EmptySeq
    <2> HIDE DEF h
    <2>5. Len(seqs) = 0 /\ \A i \in 1 .. 0 : FALSE
      BY <1>2
    <2> QED BY <2>1, <2>3, <2>4, <2>5 DEF Flattens
  <1>3. CASE n # 0
    <2>1. PICK g : FlattenTo(g, seqs, n) /\ FlattenSeq(seqs) = g[n]
      BY <1>1, <1>3, FlattenIs
    <2>2. \A i \in 1 .. n : g[i] = IF i = 1 THEN seqs[i] ELSE g[i - 1] \o seqs[i]
      BY <2>1 DEF FlattenTo
    <2> DEFINE h == [i \in 0 .. n |-> IF i = 0 THEN <<>> ELSE g[i]]
    <2>3. h[0] = <<>> /\ \A i \in 1 .. n : h[i] = g[i]
      BY <1>1
    <2> HIDE DEF h, n
    <2>4. ASSUME NEW i \in 1 .. n PROVE h[i] = h[i - 1] \o seqs[i]
      <3>1. CASE i = 1
        <4>1. <<>> \o seqs[1] = seqs[1]
          BY <1>1, <2>4, <3>1, ConcatEmptySeq
        <4>2. h[1] = seqs[1]
          BY <2>2, <2>3, <2>4, <3>1
        <4>3. h[i - 1] = <<>>
          BY <2>3, <3>1
        <4> QED BY <3>1, <4>1, <4>2, <4>3
      <3>2. CASE i # 1
        <4>1. i - 1 \in 1 .. n
          BY <1>1, <2>4, <3>2
        <4> QED BY <2>2, <2>3, <2>4, <3>2, <4>1
      <3> QED BY <3>1, <3>2
    <2> DEFINE Bad == {i \in 0 .. n : h[i] \notin Seq(S)}
    <2>5. ASSUME Bad # {} PROVE FALSE
      <3>0. Bad \in SUBSET Nat
        BY <1>1
      <3>1. PICK m \in Bad : \A k \in Bad : m <= k
        <4> HIDE DEF Bad
        <4> QED BY <2>5, <3>0, Least
      <3>2. m \in 0 .. n /\ h[m] \notin Seq(S)
        BY <3>1
      <3>3. m # 0
        BY <2>3, <3>2, EmptySeq
      <3>4. m \in 1 .. n /\ m - 1 \in 0 .. n /\ m - 1 < m
        BY <1>1, <3>2, <3>3
      <3>5. h[m - 1] \in Seq(S)
        BY <3>1, <3>4
      <3>6. h[m] = h[m - 1] \o seqs[m] /\ seqs[m] \in Seq(S)
        BY <1>1, <2>4, <3>4
      <3> QED BY <3>2, <3>5, <3>6, ConcatProperties
    <2>6. n \in 1 .. n
      BY <1>1, <1>3
    <2> QED BY <2>1, <2>3, <2>4, <2>5, <2>6 DEF Flattens, n
  <1> QED BY <1>2, <1>3

\* Three texts in a row are one text, whichever two are joined first.
Regrouped(one, two, three) == (one \o two) \o three = one \o (two \o three)

LEMMA Regroup ==
  ASSUME NEW S, NEW one \in Seq(S), NEW two \in Seq(S), NEW three \in Seq(S)
  PROVE  Regrouped(one, two, three)
  BY ConcatAssociative, SMTT(60) DEF Regrouped

\* What comes first of the sequences comes first of what they are together.
LEMMA FlattenFirst ==
  ASSUME NEW S, NEW s \in Seq(S), NEW seqs \in Seq(Seq(S))
  PROVE  /\ FlattenSeq(<<s>> \o seqs) = s \o FlattenSeq(seqs)
         /\ FlattenSeq(seqs) \in Seq(S)
  <1> DEFINE all == <<s>> \o seqs
             n == Len(seqs)
  <1>1. n \in Nat /\ \A i \in 1 .. n : seqs[i] \in Seq(S)
    BY LenProperties, ElementOfSeq
  <1>2. <<s>> \in Seq(Seq(S)) /\ Len(<<s>>) = 1 /\ <<s>>[1] = s
    OBVIOUS
  <1>3. /\ all \in Seq(Seq(S)) /\ Len(all) = 1 + n
        /\ \A i \in 1 .. 1 + n : all[i] = IF i <= 1 THEN <<s>>[i] ELSE seqs[i - 1]
    BY <1>2, ConcatProperties
  <1> HIDE DEF all
  <1>4. PICK h : Flattens(h, seqs, S)
    BY FlattenSteps
  <1>5. PICK k : Flattens(k, all, S)
    BY <1>3, FlattenSteps
  <1>6. /\ h[0] = <<>> /\ \A i \in 1 .. n : h[i] = h[i - 1] \o seqs[i]
        /\ \A i \in 0 .. n : h[i] \in Seq(S)
        /\ FlattenSeq(seqs) = h[n]
    BY <1>4 DEF Flattens
  <1>7. /\ k[0] = <<>> /\ \A i \in 1 .. 1 + n : k[i] = k[i - 1] \o all[i]
        /\ FlattenSeq(all) = k[1 + n]
    BY <1>3, <1>5 DEF Flattens
  <1> HIDE DEF n
  <1> DEFINE Bad == {i \in 0 .. n : k[i + 1] # s \o h[i]}
  <1>8. ASSUME Bad # {} PROVE FALSE
    <2>0. Bad \in SUBSET Nat
      BY <1>1
    <2>1. PICK m \in Bad : \A i \in Bad : m <= i
      <3> HIDE DEF Bad
      <3> QED BY <1>8, <2>0, Least
    <2>2. m \in 0 .. n /\ k[m + 1] # s \o h[m]
      BY <2>1
    <2>3. CASE m = 0
      <3>1. 1 \in 1 .. 1 + n /\ all[1] = s
        BY <1>1, <1>2, <1>3
      <3>2. k[1 - 1] = <<>>
        BY <1>7
      <3>3. k[1] = <<>> \o s
        BY <1>7, <3>1, <3>2
      <3>4. <<>> \o s = s /\ s \o <<>> = s
        BY ConcatEmptySeq
      <3> QED BY <1>6, <2>2, <2>3, <3>3, <3>4
    <2>4. CASE m # 0
      <3>1. /\ m \in 1 .. n /\ m - 1 \in 0 .. n /\ m - 1 < m
            /\ m + 1 \in 1 .. 1 + n /\ ~(m + 1 <= 1) /\ (m + 1) - 1 = m /\ (m - 1) + 1 = m
        BY <1>1, <2>2, <2>4
      <3>2. k[m] = s \o h[m - 1]
        BY <2>1, <3>1
      <3>3. all[m + 1] = seqs[m]
        BY <1>3, <3>1
      <3>4. k[m + 1] = k[m] \o seqs[m]
        BY <1>7, <3>1, <3>3
      <3>5. h[m] = h[m - 1] \o seqs[m] /\ h[m - 1] \in Seq(S) /\ seqs[m] \in Seq(S)
        BY <1>1, <1>6, <3>1
      <3>6. (s \o h[m - 1]) \o seqs[m] = s \o (h[m - 1] \o seqs[m])
        <4>1. h[m - 1] \in Seq(S) /\ seqs[m] \in Seq(S)
          BY <3>5
        <4>2. Regrouped(s, h[m - 1], seqs[m])
          BY <4>1, Regroup
        <4> QED BY <4>2 DEF Regrouped
      <3> QED BY <2>2, <3>2, <3>4, <3>5, <3>6
    <2> QED BY <2>3, <2>4
  <1>9. n \in 0 .. n /\ n + 1 = 1 + n
    BY <1>1
  <1>10. k[n + 1] = s \o h[n]
    BY <1>8, <1>9
  <1> QED BY <1>6, <1>7, <1>9, <1>10 DEF all

-----------------------------------------------------------------------------
(* Scanning an argument.                                                   *)

\* Where a placeholder is opened.
Opens(arg, i) ==
  /\ arg[i] = OpenBrace /\ Closing(arg, i) <= Len(arg)
  /\ IsPlaceholderName(SubSeq(arg, i + 1, Closing(arg, i) - 1))

\* What is scanned from i on, given what is scanned from later on.
ScanStep(arg, later, i) ==
  IF i > Len(arg) THEN <<>>
  ELSE IF Opens(arg, i)
       THEN <<[key |-> SubSeq(arg, i + 1, Closing(arg, i) - 1)]>> \o later[Closing(arg, i) + 1]
       ELSE <<[char |-> arg[i]]>> \o later[i + 1]

ScannedFrom(g, arg, m) == g = [i \in m .. Len(arg) + 1 |-> ScanStep(arg, g, i)]

\* The closing brace is the first one.
LEMMA ClosingIs ==
  ASSUME NEW arg, Len(arg) \in Nat, NEW i \in 1 .. Len(arg)
  PROVE  /\ Closing(arg, i) \in i + 1 .. Len(arg) + 1
         /\ Closing(arg, i) <= Len(arg) => arg[Closing(arg, i)] = CloseBrace
         /\ \A j \in i + 1 .. Len(arg) : arg[j] = CloseBrace => Closing(arg, i) <= j
  <1> DEFINE closing == {j \in i + 1 .. Len(arg) : arg[j] = CloseBrace}
  <1>1. Closing(arg, i) = IF closing = {} THEN Len(arg) + 1 ELSE Min(closing)
    BY DEF Closing
  <1>2. PICK n \in Nat : n = Len(arg)
    OBVIOUS
  <1>3. \A j : j \in closing <=> j \in i + 1 .. n /\ arg[j] = CloseBrace
    BY <1>2
  <1>4. i \in 1 .. n
    BY <1>2
  <1> SUFFICES /\ Closing(arg, i) \in i + 1 .. n + 1
               /\ Closing(arg, i) <= n => arg[Closing(arg, i)] = CloseBrace
               /\ \A j \in closing : Closing(arg, i) <= j
    BY <1>2, <1>3
  <1> HIDE DEF closing
  <1>5. CASE closing = {}
    <2>1. Closing(arg, i) = n + 1
      BY <1>1, <1>2, <1>5
    <2> QED BY <1>4, <1>5, <2>1
  <1>6. CASE closing # {}
    <2>1. \A j \in closing : j \in i + 1 .. n /\ arg[j] = CloseBrace /\ j \in Nat
      BY <1>3, <1>4
    <2>2. closing \in SUBSET Nat
      BY <2>1
    <2>3. Closing(arg, i) = Min(closing)
      BY <1>1, <1>6
    <2>4. Closing(arg, i) \in closing /\ \A j \in closing : Closing(arg, i) <= j
      BY <1>6, <2>2, <2>3, MinIs
    <2> QED BY <1>4, <2>1, <2>4
  <1> QED BY <1>5, <1>6

\* The recursion of Scan has a solution.
LEMMA ScanExists ==
  ASSUME NEW arg, Len(arg) \in Nat
  PROVE  \E g : ScannedFrom(g, arg, 1)
  <1> DEFINE n == Len(arg)
             Bad == {k \in 0 .. n : ~ \E g : ScannedFrom(g, arg, n + 1 - k)}
  <1>1. ASSUME Bad # {} PROVE FALSE
    <2>0. Bad \in SUBSET Nat
      OBVIOUS
    <2>1. PICK k \in Bad : \A l \in Bad : k <= l
      <3> HIDE DEF Bad
      <3> QED BY <1>1, <2>0, Least
    <2> DEFINE m == n + 1 - k
    <2>2. k \in 0 .. n /\ ~ \E g : ScannedFrom(g, arg, m)
      BY <2>1
    <2>3. CASE k = 0
      <3>1. m = n + 1 /\ \A i \in m .. n + 1 : i > n
        BY <2>2, <2>3
      <3> DEFINE h == [i \in m .. n + 1 |-> <<>>]
      <3>2. \A i \in m .. n + 1 : ScanStep(arg, h, i) = <<>>
        BY <3>1 DEF ScanStep
      <3>3. h = [i \in m .. n + 1 |-> ScanStep(arg, h, i)]
        BY <3>2
      <3> HIDE DEF h
      <3> QED BY <2>2, <3>3 DEF ScannedFrom
    <2>4. CASE k # 0
      <3>1. /\ k - 1 \in 0 .. n /\ k - 1 < k /\ n + 1 - (k - 1) = m + 1
            /\ m \in 1 .. n
        BY <2>2, <2>4
      <3>2. PICK g : ScannedFrom(g, arg, m + 1)
        <4>1. k - 1 \notin Bad
          BY <2>1, <3>1
        <4> QED BY <3>1, <4>1
      <3> DEFINE h == [i \in m .. n + 1 |-> IF i = m THEN ScanStep(arg, g, m) ELSE g[i]]
      <3> HIDE DEF m, n
      <3>3. h[m] = ScanStep(arg, g, m) /\ \A i \in m + 1 .. n + 1 : h[i] = g[i]
        BY <2>2, <3>1 DEF n
      <3>4. h = [i \in m .. n + 1 |-> h[i]]
        OBVIOUS
      <3> HIDE DEF h
      <3>5. \A i \in m + 1 .. n + 1 : g[i] = ScanStep(arg, g, i)
        BY <3>2 DEF ScannedFrom, n
      <3>6. ASSUME NEW i \in m .. n + 1 PROVE ScanStep(arg, h, i) = ScanStep(arg, g, i)
        <4>1. CASE i > n
          BY <4>1 DEF ScanStep, n
        <4>2. CASE i <= n
          <5>1. i \in 1 .. n
            BY <3>1, <3>6, <4>2 DEF n
          <5>2. Closing(arg, i) \in i + 1 .. n + 1
            BY <5>1, ClosingIs DEF n
          <5>3. Closing(arg, i) <= n => h[Closing(arg, i) + 1] = g[Closing(arg, i) + 1]
            BY <3>1, <3>3, <3>6, <5>1, <5>2 DEF n
          <5>4. h[i + 1] = g[i + 1]
            BY <3>1, <3>3, <3>6, <5>1 DEF n
          <5> QED BY <5>3, <5>4 DEF ScanStep, Opens, n
        <4> QED BY <3>1, <3>6, <4>1, <4>2 DEF n
      <3>7. \A i \in m .. n + 1 : h[i] = ScanStep(arg, h, i)
        <4> TAKE i \in m .. n + 1
        <4>1. i = m \/ i \in m + 1 .. n + 1
          BY <3>1 DEF n
        <4> QED BY <3>3, <3>5, <3>6, <4>1
      <3>8. h = [i \in m .. n + 1 |-> ScanStep(arg, h, i)]
        BY <3>4, <3>7
      <3> QED BY <2>2, <3>8 DEF ScannedFrom, m, n
    <2> QED BY <2>3, <2>4
  <1>2. n \in 0 .. n /\ n + 1 - n = 1
    OBVIOUS
  <1>3. n \notin Bad
    BY <1>1
  <1> QED BY <1>2, <1>3

\* Scan's result is that function's first value.
LEMMA ScanIs ==
  ASSUME NEW arg, Len(arg) \in Nat
  PROVE  \E g : ScannedFrom(g, arg, 1) /\ Scan(arg) = g[1]
  <1> DEFINE scan[i \in 1 .. Len(arg) + 1] ==
               LET close == Closing(arg, i)
                   name  == SubSeq(arg, i + 1, close - 1)
               IN IF i > Len(arg) THEN <<>>
                  ELSE IF arg[i] = OpenBrace /\ close <= Len(arg) /\ IsPlaceholderName(name)
                  THEN <<[key |-> name]>> \o scan[close + 1]
                  ELSE <<[char |-> arg[i]]>> \o scan[i + 1]
  <1>1. Scan(arg) = scan[1]
    BY DEF Scan
  <1>2. \E g : g = [i \in 1 .. Len(arg) + 1 |->
               LET close == Closing(arg, i)
                   name  == SubSeq(arg, i + 1, close - 1)
               IN IF i > Len(arg) THEN <<>>
                  ELSE IF arg[i] = OpenBrace /\ close <= Len(arg) /\ IsPlaceholderName(name)
                  THEN <<[key |-> name]>> \o g[close + 1]
                  ELSE <<[char |-> arg[i]]>> \o g[i + 1]]
    BY ScanExists DEF ScannedFrom, ScanStep, Opens
  <1>3. scan = [i \in 1 .. Len(arg) + 1 |->
               LET close == Closing(arg, i)
                   name  == SubSeq(arg, i + 1, close - 1)
               IN IF i > Len(arg) THEN <<>>
                  ELSE IF arg[i] = OpenBrace /\ close <= Len(arg) /\ IsPlaceholderName(name)
                  THEN <<[key |-> name]>> \o scan[close + 1]
                  ELSE <<[char |-> arg[i]]>> \o scan[i + 1]]
    BY <1>2
  <1> HIDE DEF scan
  <1>4. ScannedFrom(scan, arg, 1)
    BY <1>3 DEF ScannedFrom, ScanStep, Opens
  <1> QED BY <1>1, <1>4

-----------------------------------------------------------------------------
(* The holes of an argument.                                               *)

\* No brace is in the name of a placeholder.
LEMMA Braces ==
  ASSUME NEW name, IsPlaceholderName(name), NEW i \in DOMAIN name
  PROVE  name[i] # OpenBrace /\ name[i] # CloseBrace
  <1>1. OpenBrace # "_" /\ CloseBrace # "_"
    BY Zenon DEF OpenBrace, CloseBrace
  <1>2. name[i] \in Upper \cup Digit \cup {"_"}
    BY DEF IsPlaceholderName
  <1> QED BY <1>1, <1>2, PlaceholderAssumption

\* Between the braces of a hole there are none.
LEMMA HoleWithin ==
  ASSUME NEW arg, NEW n \in Nat, NEW a \in 1 .. n, NEW b \in 1 .. n,
         IsPlaceholderName(SubSeq(arg, a + 1, b - 1)), NEW j \in a + 1 .. b - 1
  PROVE  arg[j] # OpenBrace /\ arg[j] # CloseBrace
  <1> DEFINE name == SubSeq(arg, a + 1, b - 1)
             S == {arg[k] : k \in a + 1 .. b - 1}
  <1>1. \A k \in a + 1 .. b - 1 : arg[k] \in S
    OBVIOUS
  <1>2. a + 1 \in Int /\ b - 1 \in Int
    OBVIOUS
  <1> HIDE DEF S
  <1>3. /\ name \in Seq(S)
        /\ Len(name) = IF a + 1 <= b - 1 THEN (b - 1) - (a + 1) + 1 ELSE 0
        /\ \A k \in 1 .. (b - 1) - (a + 1) + 1 : name[k] = arg[(a + 1) + k - 1]
    BY <1>1, <1>2, SubSeqProperties
  <1> HIDE DEF name
  <1>4. DOMAIN name = 1 .. Len(name)
    BY <1>3, LenProperties
  <1>5. /\ j - a \in 1 .. (b - 1) - (a + 1) + 1
        /\ (a + 1) + (j - a) - 1 = j
        /\ Len(name) = (b - 1) - (a + 1) + 1
    BY <1>3
  <1>6. j - a \in DOMAIN name
    BY <1>4, <1>5
  <1>7. name[j - a] = arg[j]
    BY <1>3, <1>5
  <1> QED BY <1>6, <1>7, Braces DEF name

\* A text of n characters.
OfLength(arg, n) == n \in Nat /\ Len(arg) = n /\ DOMAIN arg = 1 .. n

\* Holes, by the positions of their braces.
LEMMA HoleIs ==
  ASSUME NEW arg, NEW n, OfLength(arg, n), NEW h
  PROVE  h \in Holes(arg) <=>
           /\ h \in (1 .. n) \X (1 .. n)
           /\ h[1] < h[2] /\ arg[h[1]] = OpenBrace /\ arg[h[2]] = CloseBrace
           /\ IsPlaceholderName(SubSeq(arg, h[1] + 1, h[2] - 1))
  BY DEF Holes, OfLength

\* A hole is where a placeholder is opened, and ends at its closing brace.
LEMMA HoleOpens ==
  ASSUME NEW arg, NEW n, OfLength(arg, n), NEW i \in 1 .. n
  PROVE  /\ Opens(arg, i) => \E h \in Holes(arg) : h[1] = i
         /\ \A h \in Holes(arg) : h[1] = i => Opens(arg, i) /\ h[2] = Closing(arg, i)
  <1> DEFINE close == Closing(arg, i)
  <1>0. n \in Nat /\ n = Len(arg)
    BY DEF OfLength
  <1>1. /\ close \in i + 1 .. n + 1
        /\ close <= n => arg[close] = CloseBrace
        /\ \A j \in i + 1 .. n : arg[j] = CloseBrace => close <= j
    BY <1>0, ClosingIs
  <1> HIDE DEF close
  <1>2. ASSUME Opens(arg, i) PROVE \E h \in Holes(arg) : h[1] = i
    <2>1. /\ arg[i] = OpenBrace /\ close <= n
          /\ IsPlaceholderName(SubSeq(arg, i + 1, close - 1))
      BY <1>0, <1>2 DEF Opens, close
    <2> DEFINE h == <<i, close>>
    <2>2. h[1] = i /\ h[2] = close
      OBVIOUS
    <2>3. h \in (1 .. n) \X (1 .. n) /\ i < close
      BY <1>0, <1>1, <2>1
    <2> HIDE DEF h
    <2>4. h \in Holes(arg)
      BY <1>1, <2>1, <2>2, <2>3, HoleIs
    <2> QED BY <2>2, <2>4
  <1>3. ASSUME NEW h \in Holes(arg), h[1] = i PROVE Opens(arg, i) /\ h[2] = close
    <2>1. /\ h[2] \in 1 .. n /\ i < h[2] /\ arg[i] = OpenBrace /\ arg[h[2]] = CloseBrace
          /\ IsPlaceholderName(SubSeq(arg, i + 1, h[2] - 1))
      BY <1>3, HoleIs
    <2>2. close <= h[2]
      BY <1>0, <1>1, <2>1
    <2>3. CASE close < h[2]
      <3>1. close \in i + 1 .. h[2] - 1 /\ close <= n
        BY <1>0, <1>1, <2>1, <2>3
      <3> QED BY <1>0, <1>1, <2>1, <3>1, HoleWithin
    <2>4. CASE close = h[2]
      <3>1. close <= n
        BY <1>0, <2>1, <2>4
      <3> QED BY <1>0, <2>1, <2>4, <3>1 DEF Opens, close
    <2> QED BY <1>0, <1>1, <2>1, <2>2, <2>3, <2>4
  <1> QED BY <1>2, <1>3 DEF close

Inside(arg, i) == \E h \in Holes(arg) : h[1] < i /\ i <= h[2]

\* Holes do not meet: in what is behind an open brace no other opens, and what
\* is behind a hole, or behind what is in none, is not in an earlier one.
LEMMA HolesApart ==
  ASSUME NEW arg, NEW n, OfLength(arg, n), NEW i \in 1 .. n
  PROVE  /\ Opens(arg, i) =>
              \A k \in i + 1 .. Closing(arg, i) :
                Inside(arg, k) /\ ~ \E h \in Holes(arg) : h[1] = k
         /\ Opens(arg, i) /\ ~Inside(arg, i) => ~Inside(arg, Closing(arg, i) + 1)
         /\ ~Opens(arg, i) /\ ~Inside(arg, i) => ~Inside(arg, i + 1)
  <1> DEFINE close == Closing(arg, i)
  <1>0. n \in Nat /\ n = Len(arg)
    BY DEF OfLength
  <1>1. close \in i + 1 .. n + 1
    BY <1>0, ClosingIs
  <1>2. ASSUME Opens(arg, i), NEW k \in i + 1 .. close
        PROVE  Inside(arg, k) /\ ~ \E h \in Holes(arg) : h[1] = k
    <2>1. PICK h \in Holes(arg) : h[1] = i
      BY <1>2, HoleOpens
    <2>2. h[2] = close
      BY <2>1, HoleOpens
    <2>3. Inside(arg, k)
      BY <1>1, <1>2, <2>1, <2>2 DEF Inside
    <2>4. /\ close \in 1 .. n /\ arg[close] = CloseBrace
          /\ IsPlaceholderName(SubSeq(arg, i + 1, close - 1))
      BY <2>1, <2>2, HoleIs
    <2>5. arg[k] # OpenBrace
      <3>1. CASE k = close
        <4>1. OpenBrace # CloseBrace
          BY Zenon DEF OpenBrace, CloseBrace
        <4> QED BY <2>4, <3>1, <4>1
      <3>2. CASE k # close
        <4>1. k \in i + 1 .. close - 1
          BY <1>1, <1>2, <3>2
        <4> QED BY <1>0, <2>4, <4>1, HoleWithin
      <3> QED BY <3>1, <3>2
    <2>6. \A g \in Holes(arg) : arg[g[1]] = OpenBrace
      BY HoleIs
    <2> QED BY <2>3, <2>5, <2>6
  <1> HIDE DEF close
  <1>3. ASSUME Opens(arg, i), ~Inside(arg, i), Inside(arg, close + 1) PROVE FALSE
    <2>1. PICK h \in Holes(arg) : h[1] < close + 1 /\ close + 1 <= h[2]
      BY <1>3 DEF Inside
    <2>2. h[1] \in 1 .. n /\ h[2] \in 1 .. n
      BY <2>1, HoleIs
    <2>3. CASE h[1] < i
      <3>1. i <= h[2]
        BY <1>0, <1>1, <2>1, <2>2
      <3> QED BY <1>3, <2>1, <2>3, <3>1 DEF Inside
    <2>4. CASE h[1] = i
      <3>1. h[2] = close
        BY <2>1, <2>4, HoleOpens DEF close
      <3> QED BY <1>0, <1>1, <2>1, <3>1
    <2>5. CASE h[1] > i
      <3>1. h[1] \in i + 1 .. close
        BY <1>0, <1>1, <2>1, <2>2, <2>5
      <3> QED BY <1>2, <1>3, <2>1, <3>1 DEF close
    <2> QED BY <1>0, <2>2, <2>3, <2>4, <2>5
  <1>4. ASSUME ~Opens(arg, i), ~Inside(arg, i), Inside(arg, i + 1) PROVE FALSE
    <2>1. PICK h \in Holes(arg) : h[1] < i + 1 /\ i + 1 <= h[2]
      BY <1>4 DEF Inside
    <2>2. h[1] \in 1 .. n /\ h[2] \in 1 .. n
      BY <2>1, HoleIs
    <2>3. h[1] # i
      BY <1>4, <2>1, HoleOpens
    <2>4. h[1] < i /\ i <= h[2]
      BY <1>0, <2>1, <2>2, <2>3
    <2> QED BY <1>4, <2>1, <2>4 DEF Inside
  <1> QED BY <1>2, <1>3, <1>4 DEF close

\* What a position of an argument comes to.
Part(arg, lookup, k) ==
  IF \E h \in Holes(arg) : h[1] = k
  THEN LET h == CHOOSE h \in Holes(arg) : h[1] = k
           value == Get(lookup, SubSeq(arg, k + 1, h[2] - 1), Missing)
       IN IF value = Missing THEN <<Missing>> ELSE value
  ELSE IF Inside(arg, k) THEN <<>> ELSE <<arg[k]>>

\* A position is where a hole begins, further in one, or in none.
LEMMA PartIs ==
  ASSUME NEW arg, NEW n, OfLength(arg, n), NEW i \in 1 .. n, NEW lookup
  PROVE  LET close == Closing(arg, i)
             value == Get(lookup, SubSeq(arg, i + 1, close - 1), Missing)
         IN /\ Opens(arg, i) => Part(arg, lookup, i) = IF value = Missing THEN <<Missing>> ELSE value
            /\ Opens(arg, i) => \A k \in i + 1 .. close : Part(arg, lookup, k) = <<>>
            /\ ~Opens(arg, i) /\ ~Inside(arg, i) => Part(arg, lookup, i) = <<arg[i]>>
  <1>1. ASSUME Opens(arg, i)
        PROVE  /\ \E h \in Holes(arg) : h[1] = i
               /\ (CHOOSE h \in Holes(arg) : h[1] = i)[2] = Closing(arg, i)
    <2>1. \E h \in Holes(arg) : h[1] = i
      BY <1>1, HoleOpens
    <2>2. PICK h : h = CHOOSE g \in Holes(arg) : g[1] = i
      OBVIOUS
    <2>3. h \in Holes(arg) /\ h[1] = i
      BY <2>1, <2>2
    <2>4. h[2] = Closing(arg, i)
      BY <2>3, HoleOpens
    <2> QED BY <2>1, <2>2, <2>4
  <1>2. ASSUME Opens(arg, i), NEW k \in i + 1 .. Closing(arg, i)
        PROVE  Part(arg, lookup, k) = <<>>
    BY <1>2, HolesApart DEF Part
  <1>3. ASSUME ~Opens(arg, i), ~Inside(arg, i) PROVE Part(arg, lookup, i) = <<arg[i]>>
    <2>1. ~ \E h \in Holes(arg) : h[1] = i
      BY <1>3, HoleOpens
    <2> QED BY <1>3, <2>1 DEF Part
  <1> QED BY <1>1, <1>2, <1>3 DEF Part

-----------------------------------------------------------------------------
(* What is scanned fills the holes.                                        *)

\* What a piece comes to, as in Substitute.
TextOf(lookup, piece) ==
  IF "key" \in DOMAIN piece THEN Get(lookup, piece.key, Missing) ELSE <<piece.char>>

TextsOf(lookup, pieces) == [k \in DOMAIN pieces |-> TextOf(lookup, pieces[k])]

\* Every piece comes to a sequence from S.
AllTexts(lookup, pieces, S) ==
  \A k \in DOMAIN pieces : TextOf(lookup, pieces[k]) \in Seq(S) \ {Missing}

\* The text of a first piece comes first.
LEMMA TextsFirst ==
  ASSUME NEW P, NEW piece \in P, NEW rest \in Seq(P), NEW lookup, NEW S,
         AllTexts(lookup, <<piece>> \o rest, S)
  PROVE  /\ TextOf(lookup, piece) \in Seq(S) \ {Missing}
         /\ AllTexts(lookup, rest, S)
         /\ TextsOf(lookup, rest) \in Seq(Seq(S))
         /\ TextsOf(lookup, <<piece>> \o rest) =
              <<TextOf(lookup, piece)>> \o TextsOf(lookup, rest)
  <1> DEFINE all == <<piece>> \o rest
             n == Len(rest)
             text(p) == TextOf(lookup, p)
  <1>1. <<piece>> \in Seq(P) /\ Len(<<piece>>) = 1 /\ <<piece>>[1] = piece
    OBVIOUS
  <1>2. n \in Nat /\ DOMAIN rest = 1 .. n
    BY LenProperties
  <1>3. /\ all \in Seq(P) /\ Len(all) = 1 + n
        /\ \A i \in 1 .. 1 + n : all[i] = IF i <= 1 THEN <<piece>>[i] ELSE rest[i - 1]
    BY <1>1, ConcatProperties
  <1>4. DOMAIN all = 1 .. 1 + n
    BY <1>3, LenProperties
  <1>5. \A k \in DOMAIN all : text(all[k]) \in Seq(S) \ {Missing}
    BY DEF AllTexts
  <1> HIDE DEF all, n, text
  <1>6. all[1] = piece /\ 1 \in DOMAIN all
    BY <1>1, <1>2, <1>3, <1>4
  <1>7. \A k \in 1 .. n : all[k + 1] = rest[k] /\ k + 1 \in DOMAIN all
    <2> TAKE k \in 1 .. n
    <2>1. k + 1 \in 1 .. 1 + n /\ ~(k + 1 <= 1) /\ (k + 1) - 1 = k
      BY <1>2
    <2> QED BY <1>3, <1>4, <2>1
  <1>8. /\ text(piece) \in Seq(S) \ {Missing}
        /\ \A k \in 1 .. n : text(rest[k]) \in Seq(S) \ {Missing}
    BY <1>5, <1>6, <1>7
  <1> DEFINE texts == [k \in 1 .. n |-> text(rest[k])]
             longer == [k \in 1 .. 1 + n |-> text(all[k])]
  <1>9. texts \in Seq(Seq(S)) /\ Len(texts) = n
    <2>1. texts \in Seq(Seq(S))
      BY <1>2, <1>8, IsASeq
    <2> QED BY <1>2, <2>1, LenProperties
  <1>10. longer \in Seq(Seq(S)) /\ Len(longer) = 1 + n
    <2>1. 1 + n \in Nat /\ \A k \in 1 .. 1 + n : text(all[k]) \in Seq(S)
      BY <1>2, <1>4, <1>5
    <2>2. longer \in Seq(Seq(S))
      BY <2>1, IsASeq
    <2> QED BY <2>1, <2>2, LenProperties
  <1>11. /\ <<text(piece)>> \o texts \in Seq(Seq(S))
         /\ Len(<<text(piece)>> \o texts) = 1 + n
         /\ \A i \in 1 .. 1 + n : (<<text(piece)>> \o texts)[i] =
              IF i <= 1 THEN text(piece) ELSE texts[i - 1]
    <2>1. /\ <<text(piece)>> \in Seq(Seq(S)) /\ Len(<<text(piece)>>) = 1
          /\ \A i : i \in Int /\ i >= 1 /\ i <= 1 => <<text(piece)>>[i] = text(piece)
      BY <1>8
    <2> HIDE DEF texts
    <2>2. /\ <<text(piece)>> \o texts \in Seq(Seq(S))
          /\ Len(<<text(piece)>> \o texts) = 1 + n
          /\ \A i \in 1 .. 1 + n : (<<text(piece)>> \o texts)[i] =
               IF i <= 1 THEN <<text(piece)>>[i] ELSE texts[i - 1]
      BY <1>9, <2>1, ConcatProperties
    <2> QED BY <1>2, <2>1, <2>2
  <1>12. ASSUME NEW i \in 1 .. 1 + n PROVE longer[i] = (<<text(piece)>> \o texts)[i]
    <2>1. CASE i = 1
      BY <1>6, <1>11, <1>12, <2>1
    <2>2. CASE i # 1
      <3>1. i - 1 \in 1 .. n /\ (i - 1) + 1 = i /\ ~(i <= 1)
        BY <1>2, <1>12, <2>2
      <3>2. all[i] = rest[i - 1]
        BY <1>7, <3>1
      <3>3. texts[i - 1] = text(rest[i - 1])
        BY <3>1
      <3>4. longer[i] = text(all[i])
        BY <1>12
      <3> HIDE DEF texts, longer
      <3> QED BY <1>11, <1>12, <3>1, <3>2, <3>3, <3>4
    <2> QED BY <2>1, <2>2
  <1> HIDE DEF texts, longer
  <1>13. longer = <<text(piece)>> \o texts
    BY <1>10, <1>11, <1>12, SeqEqual
  <1>14. TextsOf(lookup, all) = longer /\ TextsOf(lookup, rest) = texts
    BY <1>2, <1>4 DEF TextsOf, longer, texts, text
  <1> QED BY <1>2, <1>8, <1>9, <1>13, <1>14 DEF AllTexts, text, all

\* The pieces of a text.
Pieces(arg) ==
  {[char |-> arg[i]] : i \in 1 .. Len(arg)}
  \cup {[key |-> SubSeq(arg, p[1], p[2])] : p \in Int \X Int}

\* What is scanned is a sequence of pieces.
LEMMA ScannedPieces ==
  ASSUME NEW arg, NEW n, OfLength(arg, n), NEW g, ScannedFrom(g, arg, 1), NEW i \in 1 .. n + 1
  PROVE  g[i] \in Seq(Pieces(arg))
  <1> DEFINE P == Pieces(arg)
             Bad == {k \in 0 .. n : g[n + 1 - k] \notin Seq(P)}
  <1>0. n \in Nat /\ n = Len(arg)
    BY DEF OfLength
  <1>1. \A k \in 1 .. n + 1 : g[k] = ScanStep(arg, g, k)
    BY <1>0 DEF ScannedFrom
  <1>2. /\ \A k \in 1 .. n : [char |-> arg[k]] \in P
        /\ \A k, l \in Int : [key |-> SubSeq(arg, k, l)] \in P
    <2>1. \A k \in 1 .. n : [char |-> arg[k]] \in P
      BY <1>0 DEF Pieces
    <2>2. ASSUME NEW k \in Int, NEW l \in Int PROVE [key |-> SubSeq(arg, k, l)] \in P
      <3>1. <<k, l>> \in Int \X Int /\ <<k, l>>[1] = k /\ <<k, l>>[2] = l
        OBVIOUS
      <3> QED BY <3>1 DEF Pieces
    <2> QED BY <2>1, <2>2
  <1> HIDE DEF P
  <1>3. ASSUME Bad # {} PROVE FALSE
    <2>0. Bad \in SUBSET Nat
      BY <1>0
    <2>1. PICK k \in Bad : \A l \in Bad : k <= l
      <3> HIDE DEF Bad
      <3> QED BY <1>3, <2>0, Least
    <2> DEFINE m == n + 1 - k
    <2>2. k \in 0 .. n /\ g[m] \notin Seq(P)
      BY <2>1
    <2>3. m \in 1 .. n + 1
      BY <1>0, <2>2
    <2>4. ASSUME NEW j \in m + 1 .. n + 1 PROVE g[j] \in Seq(P)
      <3>1. n + 1 - j \in 0 .. n /\ n + 1 - j < k /\ n + 1 - (n + 1 - j) = j
        BY <1>0, <2>2, <2>4
      <3>2. n + 1 - j \notin Bad
        BY <2>1, <3>1, <1>0
      <3> QED BY <3>1, <3>2
    <2> HIDE DEF m, Bad
    <2>5. g[m] = ScanStep(arg, g, m)
      BY <1>1, <2>3
    <2>6. CASE m > n
      BY <1>0, <2>2, <2>5, <2>6, EmptySeq DEF ScanStep
    <2>7. CASE m <= n
      <3>0. m \in 1 .. n
        BY <1>0, <2>3, <2>7
      <3>1. Closing(arg, m) \in m + 1 .. n + 1
        BY <1>0, <3>0, ClosingIs
      <3>2. CASE Opens(arg, m)
        <4>1. Closing(arg, m) <= n
          BY <1>0, <3>2 DEF Opens
        <4>2. Closing(arg, m) + 1 \in m + 1 .. n + 1
          BY <1>0, <3>0, <3>1, <4>1
        <4>3. m + 1 \in Int /\ Closing(arg, m) - 1 \in Int
          BY <3>0, <3>1
        <4>4. g[m] = <<[key |-> SubSeq(arg, m + 1, Closing(arg, m) - 1)]>>
                       \o g[Closing(arg, m) + 1]
          BY <1>0, <2>5, <2>7, <3>0, <3>2 DEF ScanStep
        <4>5. g[Closing(arg, m) + 1] \in Seq(P)
          BY <2>4, <4>2
        <4>6. [key |-> SubSeq(arg, m + 1, Closing(arg, m) - 1)] \in P
          BY <1>2, <4>3
        <4>7. \A p \in P : <<p>> \in Seq(P)
          OBVIOUS
        <4> QED BY <2>2, <4>4, <4>5, <4>6, <4>7, ConcatProperties
      <3>3. CASE ~Opens(arg, m)
        <4>1. g[m] = <<[char |-> arg[m]]>> \o g[m + 1]
          BY <1>0, <2>5, <2>7, <3>0, <3>3 DEF ScanStep
        <4>2. m + 1 \in m + 1 .. n + 1
          BY <1>0, <3>0
        <4>3. g[m + 1] \in Seq(P)
          BY <2>4, <4>2
        <4>4. [char |-> arg[m]] \in P
          BY <1>2, <3>0
        <4>5. \A p \in P : <<p>> \in Seq(P)
          OBVIOUS
        <4> QED BY <2>2, <4>1, <4>3, <4>4, <4>5, ConcatProperties
      <3> QED BY <3>2, <3>3
    <2> QED BY <1>0, <2>3, <2>6, <2>7
  <1>4. n + 1 - i \in 0 .. n /\ n + 1 - (n + 1 - i) = i
    BY <1>0
  <1>5. n + 1 - i \notin Bad
    BY <1>3
  <1> QED BY <1>4, <1>5 DEF P

\* Put together, the pieces are what the positions come to: at each position that
\* is not inside a hole, what was put together of the positions before it, and
\* the pieces scanned from it on, are the whole.
LEMMA ScanFills ==
  ASSUME NEW arg, NEW n, OfLength(arg, n), NEW lookup, NEW S, Missing \in S,
         \A i \in 1 .. n : arg[i] \in S,
         \A key : Get(lookup, key, Missing) = Missing \/ Get(lookup, key, Missing) \in Seq(S),
         \A k \in DOMAIN Scan(arg) : TextOf(lookup, Scan(arg)[k]) # Missing
  PROVE  FlattenSeq(TextsOf(lookup, Scan(arg))) =
           FlattenSeq([k \in DOMAIN arg |-> Part(arg, lookup, k)])
  <1>0. n \in Nat /\ n = Len(arg) /\ DOMAIN arg = 1 .. n
    BY DEF OfLength
  <1>1. PICK g : ScannedFrom(g, arg, 1) /\ Scan(arg) = g[1]
    BY <1>0, ScanIs
  <1>2. \A i \in 1 .. n + 1 : g[i] = ScanStep(arg, g, i) /\ g[i] \in Seq(Pieces(arg))
    <2>1. \A i \in 1 .. n + 1 : g[i] = ScanStep(arg, g, i)
      BY <1>0, <1>1 DEF ScannedFrom
    <2>2. \A i \in 1 .. n + 1 : g[i] \in Seq(Pieces(arg))
      BY <1>1, ScannedPieces
    <2> QED BY <2>1, <2>2
  <1>3. \A e \in S : <<e>> \in Seq(S)
    OBVIOUS
  <1>4. AllTexts(lookup, g[1], S)
    <2> SUFFICES ASSUME NEW k \in DOMAIN g[1]
                 PROVE  TextOf(lookup, g[1][k]) \in Seq(S) \ {Missing}
      BY DEF AllTexts
    <2>1. g[1] \in Seq(Pieces(arg))
      BY <1>0, <1>2
    <2>2. g[1][k] \in Pieces(arg)
      BY <2>1, LenProperties, ElementOfSeq
    <2>3. TextOf(lookup, g[1][k]) # Missing
      BY <1>1
    <2>4. CASE \E i \in 1 .. n : g[1][k] = [char |-> arg[i]]
      <3>1. PICK i \in 1 .. n : g[1][k] = [char |-> arg[i]]
        BY <2>4
      <3>2. TextOf(lookup, g[1][k]) = <<arg[i]>>
        BY <3>1 DEF TextOf
      <3> QED BY <1>3, <2>3, <3>2
    <2>5. CASE \E name : g[1][k] = [key |-> name]
      <3>1. PICK name : g[1][k] = [key |-> name]
        BY <2>5
      <3>2. TextOf(lookup, g[1][k]) = Get(lookup, name, Missing)
        BY <3>1 DEF TextOf
      <3> QED BY <2>3, <3>2
    <2> QED BY <1>0, <2>2, <2>4, <2>5 DEF Pieces
  <1> DEFINE parts == [k \in 1 .. n |-> Part(arg, lookup, k)]
  <1>5. parts \in Seq(Seq(S)) /\ Len(parts) = n /\ \A k \in 1 .. n : parts[k] = Part(arg, lookup, k)
    <2>1. ASSUME NEW k \in 1 .. n PROVE Part(arg, lookup, k) \in Seq(S)
      <3>1. <<arg[k]>> \in Seq(S) /\ <<>> \in Seq(S) /\ <<Missing>> \in Seq(S)
        BY <1>3, EmptySeq
      <3> DEFINE value == Get(lookup, SubSeq(arg, k + 1, (CHOOSE h \in Holes(arg) : h[1] = k)[2] - 1),
                              Missing)
      <3>2. value = Missing \/ value \in Seq(S)
        OBVIOUS
      <3>3. Part(arg, lookup, k) =
              IF \E h \in Holes(arg) : h[1] = k
              THEN IF value = Missing THEN <<Missing>> ELSE value
              ELSE IF Inside(arg, k) THEN <<>> ELSE <<arg[k]>>
        BY DEF Part
      <3> HIDE DEF value
      <3> QED BY <3>1, <3>2, <3>3
    <2>2. parts \in Seq(Seq(S))
      BY <1>0, <2>1, IsASeq
    <2> QED BY <1>0, <2>2, LenProperties
  <1> HIDE DEF parts
  <1>6. PICK h : Flattens(h, parts, S)
    BY <1>5, FlattenSteps
  <1>7. /\ h[0] = <<>>
        /\ \A i \in 1 .. n : h[i] = h[i - 1] \o parts[i]
        /\ \A i \in 0 .. n : h[i] \in Seq(S)
        /\ FlattenSeq(parts) = h[n]
    BY <1>5, <1>6 DEF Flattens
  <1> DEFINE rest(i) == FlattenSeq(TextsOf(lookup, g[i]))
             Whole(i) == ~Inside(arg, i) /\ AllTexts(lookup, g[i], S) => h[n] = h[i - 1] \o rest(i)
             Bad == {k \in 0 .. n : ~Whole(n + 1 - k)}
  <1>8. ASSUME Bad # {} PROVE FALSE
    <2>0. Bad \in SUBSET Nat
      <3> HIDE DEF Whole
      <3> QED BY <1>0
    <2>1. PICK k \in Bad : \A l \in Bad : k <= l
      <3> HIDE DEF Bad
      <3> QED BY <1>8, <2>0, Least
    <2> DEFINE m == n + 1 - k
    <2>2. k \in 0 .. n /\ ~Whole(m)
      BY <2>1
    <2>3. m \in 1 .. n + 1
      BY <1>0, <2>2
    <2> HIDE DEF Whole
    <2>4. ASSUME NEW j \in m + 1 .. n + 1 PROVE Whole(j)
      <3>1. n + 1 - j \in 0 .. n /\ n + 1 - j < k /\ n + 1 - (n + 1 - j) = j
        BY <1>0, <2>2, <2>4
      <3>2. n + 1 - j \notin Bad
        BY <1>0, <2>1, <3>1
      <3> QED BY <3>1, <3>2
    <2> HIDE DEF m, Bad
    <2>5. ~Inside(arg, m) /\ AllTexts(lookup, g[m], S) /\ h[n] # h[m - 1] \o rest(m)
      BY <2>2 DEF Whole
    <2>6. g[m] = ScanStep(arg, g, m)
      BY <1>2, <2>3
    <2>7. CASE m > n
      <3>1. m = n + 1 /\ m - 1 = n
        BY <1>0, <2>3, <2>7
      <3>2. g[m] = <<>>
        BY <1>0, <2>6, <2>7 DEF ScanStep
      <3>3. TextsOf(lookup, <<>>) = <<>>
        BY DEF TextsOf
      <3>4. FlattenSeq(<<>>) = <<>>
        BY EmptySeq DEF FlattenSeq
      <3>5. h[n] \o <<>> = h[n]
        <4>1. h[n] \in Seq(S)
          BY <1>0, <1>7
        <4> QED BY <4>1, ConcatEmptySeq
      <3> QED BY <2>5, <3>1, <3>2, <3>3, <3>4, <3>5
    <2>8. CASE m <= n
      <3>0. m \in 1 .. n /\ m - 1 \in 0 .. n /\ h[m - 1] \in Seq(S)
        BY <1>0, <1>7, <2>3, <2>8
      <3>1. ASSUME NEW next \in m + 1 .. n + 1, NEW piece \in Pieces(arg),
                   g[m] = <<piece>> \o g[next], ~Inside(arg, next),
                   h[next - 1] = h[m - 1] \o TextOf(lookup, piece)
            PROVE  FALSE
        <4>1. g[next] \in Seq(Pieces(arg))
          BY <1>0, <1>2, <3>0, <3>1
        <4>2. AllTexts(lookup, <<piece>> \o g[next], S)
          BY <2>5, <3>1
        <4>3. /\ TextOf(lookup, piece) \in Seq(S)
              /\ AllTexts(lookup, g[next], S)
              /\ TextsOf(lookup, g[next]) \in Seq(Seq(S))
              /\ TextsOf(lookup, g[m]) = <<TextOf(lookup, piece)>> \o TextsOf(lookup, g[next])
          <5>1. PICK later \in Seq(Pieces(arg)) : later = g[next]
            BY <4>1
          <5>2. AllTexts(lookup, <<piece>> \o later, S) /\ g[m] = <<piece>> \o later
            BY <3>1, <4>2, <5>1
          <5>3. /\ TextOf(lookup, piece) \in Seq(S) \ {Missing}
                /\ AllTexts(lookup, later, S)
                /\ TextsOf(lookup, later) \in Seq(Seq(S))
                /\ TextsOf(lookup, <<piece>> \o later) =
                      <<TextOf(lookup, piece)>> \o TextsOf(lookup, later)
            BY <5>2, TextsFirst, SMTT(30)
          <5> QED BY <5>1, <5>2, <5>3
        <4>4. h[n] = h[next - 1] \o rest(next)
          BY <2>4, <3>1, <4>3 DEF Whole
        <4>5. rest(m) = TextOf(lookup, piece) \o rest(next) /\ rest(next) \in Seq(S)
          BY <4>3, FlattenFirst
        <4> HIDE DEF rest
        <4>6. (h[m - 1] \o TextOf(lookup, piece)) \o rest(next) =
                h[m - 1] \o (TextOf(lookup, piece) \o rest(next))
          <5>1. /\ h[m - 1] \in Seq(S) /\ TextOf(lookup, piece) \in Seq(S)
                /\ rest(next) \in Seq(S)
            BY <3>0, <4>3, <4>5
          <5>2. Regrouped(h[m - 1], TextOf(lookup, piece), rest(next))
            BY <5>1, Regroup
          <5> QED BY <5>2 DEF Regrouped
        <4> QED BY <2>5, <3>1, <4>4, <4>5, <4>6
      <3>2. CASE Opens(arg, m)
        <4> DEFINE close == Closing(arg, m)
                   name  == SubSeq(arg, m + 1, close - 1)
                   value == Get(lookup, name, Missing)
                   piece == [key |-> name]
        <4>1. close \in m + 1 .. n + 1 /\ close <= n
          <5>1. close \in m + 1 .. n + 1
            BY <1>0, <3>0, ClosingIs
          <5>2. close <= n
            BY <1>0, <3>2 DEF Opens
          <5> QED BY <5>1, <5>2
        <4>2. g[m] = <<piece>> \o g[close + 1]
          BY <1>0, <2>6, <2>8, <3>0, <3>2 DEF ScanStep
        <4>3. ~Inside(arg, close + 1)
          BY <2>5, <3>0, <3>2, HolesApart
        <4>4. /\ Part(arg, lookup, m) = IF value = Missing THEN <<Missing>> ELSE value
              /\ \A j \in m + 1 .. close : Part(arg, lookup, j) = <<>>
          BY <3>0, <3>2, PartIs, ZenonT(30)
        <4>5. TextOf(lookup, piece) = value
          BY DEF TextOf
        <4> HIDE DEF close
        <4>6. piece \in Pieces(arg)
          <5>1. <<m + 1, close - 1>> \in Int \X Int
            BY <3>0, <4>1
          <5>2. <<m + 1, close - 1>>[1] = m + 1 /\ <<m + 1, close - 1>>[2] = close - 1
            OBVIOUS
          <5> QED BY <5>1, <5>2 DEF Pieces
        <4> HIDE DEF name, value, piece
        <4>7. close + 1 \in m + 1 .. n + 1 /\ (close + 1) - 1 = close
          BY <1>0, <3>0, <4>1
        <4>8. value \in Seq(S) /\ value # Missing
          <5>1. g[close + 1] \in Seq(Pieces(arg))
            BY <1>0, <1>2, <3>0, <4>7
          <5>2. AllTexts(lookup, <<piece>> \o g[close + 1], S)
            BY <2>5, <4>2
          <5> QED BY <4>5, <4>6, <5>1, <5>2, TextsFirst
        <4>9. parts[m] = value /\ \A j \in m + 1 .. close : parts[j] = <<>>
          <5>1. \A j \in m + 1 .. close : j \in 1 .. n
            BY <1>0, <3>0, <4>1
          <5> QED BY <1>5, <3>0, <4>4, <4>8, <5>1
        <4>10. h[m] = h[m - 1] \o value
          BY <1>7, <3>0, <4>9
        <4> DEFINE Later == {j \in m .. close : h[j] # h[m]}
        <4>11. ASSUME Later # {} PROVE FALSE
          <5>0. Later \in SUBSET Nat
            BY <3>0
          <5>1. PICK j \in Later : \A l \in Later : j <= l
            <6> HIDE DEF Later
            <6> QED BY <4>11, <5>0, Least
          <5>2. j \in m .. close /\ h[j] # h[m] /\ j # m
            BY <5>1
          <5>3. j \in m + 1 .. close /\ j \in 1 .. n /\ j - 1 \in m .. close /\ j - 1 < j /\ j - 1 \in 0 .. n
            BY <1>0, <3>0, <4>1, <5>2
          <5>4. h[j - 1] = h[m]
            BY <5>1, <5>3
          <5>5. h[j] = h[j - 1] \o <<>>
            BY <1>7, <4>9, <5>3
          <5>6. h[j - 1] \o <<>> = h[j - 1]
            <6>1. h[j - 1] \in Seq(S)
              BY <1>7, <5>3
            <6> QED BY <6>1, ConcatEmptySeq
          <5> QED BY <5>2, <5>4, <5>5, <5>6
        <4>12. h[close] = h[m - 1] \o value
          <5>1. close \in m .. close
            BY <3>0, <4>1
          <5> QED BY <4>10, <4>11, <5>1
        <4> QED BY <3>1, <4>2, <4>3, <4>5, <4>6, <4>7, <4>12
      <3>3. CASE ~Opens(arg, m)
        <4>1. g[m] = <<[char |-> arg[m]]>> \o g[m + 1]
          BY <1>0, <2>6, <2>8, <3>0, <3>3 DEF ScanStep
        <4>2. ~Inside(arg, m + 1)
          BY <2>5, <3>0, <3>3, HolesApart
        <4>3. parts[m] = <<arg[m]>>
          BY <1>5, <2>5, <3>0, <3>3, PartIs
        <4>4. TextOf(lookup, [char |-> arg[m]]) = <<arg[m]>>
          BY DEF TextOf
        <4>5. [char |-> arg[m]] \in Pieces(arg)
          BY <1>0, <3>0 DEF Pieces
        <4>6. m + 1 \in m + 1 .. n + 1 /\ (m + 1) - 1 = m
          BY <1>0, <3>0
        <4>7. h[m] = h[m - 1] \o TextOf(lookup, [char |-> arg[m]])
          BY <1>7, <3>0, <4>3, <4>4
        <4> QED BY <3>1, <4>1, <4>2, <4>5, <4>6, <4>7
      <3> QED BY <3>2, <3>3
    <2> QED BY <1>0, <2>3, <2>7, <2>8
  <1>9. n \in 0 .. n /\ n + 1 - n = 1
    BY <1>0
  <1>10. Whole(1)
    <2>1. n \notin Bad
      BY <1>8
    <2> HIDE DEF Whole
    <2> QED BY <1>9, <2>1
  <1>11. ~Inside(arg, 1)
    <2>1. \A e \in Holes(arg) : e[1] \in 1 .. n
      BY HoleIs
    <2> QED BY <1>0, <2>1 DEF Inside
  <1>12. h[n] = <<>> \o rest(1)
    <2>1. h[n] = h[1 - 1] \o rest(1)
      <3> HIDE DEF rest
      <3> QED BY <1>4, <1>10, <1>11
    <2>2. h[1 - 1] = <<>>
      BY <1>7
    <2> QED BY <2>1, <2>2
  <1>13. rest(1) \in Seq(S)
    <2> DEFINE l == Len(g[1])
               texts == [k \in 1 .. l |-> TextOf(lookup, g[1][k])]
    <2>1. g[1] \in Seq(Pieces(arg))
      BY <1>0, <1>2
    <2>2. l \in Nat /\ DOMAIN g[1] = 1 .. l
      BY <2>1, LenProperties
    <2>3. \A k \in 1 .. l : TextOf(lookup, g[1][k]) \in Seq(S)
      BY <1>4, <2>2 DEF AllTexts
    <2>4. TextsOf(lookup, g[1]) = texts
      BY <2>2 DEF TextsOf
    <2> HIDE DEF l
    <2>5. texts \in Seq(Seq(S))
      BY <2>2, <2>3, IsASeq
    <2>6. <<>> \in Seq(S)
      BY EmptySeq
    <2> QED BY <2>4, <2>5, <2>6, FlattenFirst
  <1>14. <<>> \o rest(1) = rest(1)
    <2> HIDE DEF rest
    <2> QED BY <1>13, ConcatEmptySeq
  <1>15. parts = [k \in DOMAIN arg |-> Part(arg, lookup, k)]
    BY <1>0 DEF parts
  <1> QED BY <1>1, <1>7, <1>12, <1>14, <1>15

\* An argument that is a text, with values that are texts, is filled.
LEMMA ArgumentFilled ==
  ASSUME NEW arg, IsSequence(arg), NEW lookup,
         \A key \in DOMAIN lookup : lookup[key] = Missing \/ IsSequence(lookup[key]),
         Substitute(arg, lookup) # Rejected
  PROVE  Substitute(arg, lookup) = FlattenSeq([k \in DOMAIN arg |-> Part(arg, lookup, k)])
  <1> DEFINE n == Len(arg)
             pieces == Scan(arg)
             letters(text) == {text[i] : i \in DOMAIN text}
             S == {Missing} \cup letters(arg)
                    \cup UNION {letters(lookup[key]) : key \in DOMAIN lookup}
  <1>1. OfLength(arg, n)
    BY LenProperties DEF IsSequence, OfLength
  <1>2. ASSUME NEW text, IsSequence(text), letters(text) \subseteq S PROVE text \in Seq(S)
    <2>1. text \in Seq(letters(text))
      BY <1>2 DEF IsSequence
    <2> HIDE DEF S
    <2>2. text \in [1 .. Len(text) -> letters(text)] /\ Len(text) \in Nat
      BY <2>1, LenProperties
    <2> HIDE DEF letters
    <2>3. text = [i \in 1 .. Len(text) |-> text[i]] /\ \A i \in 1 .. Len(text) : text[i] \in S
      BY <1>2, <2>2
    <2>4. [i \in 1 .. Len(text) |-> text[i]] \in Seq(S)
      BY <2>2, <2>3, IsASeq
    <2> QED BY <2>3, <2>4
  <1>3. ASSUME NEW key PROVE Get(lookup, key, Missing) = Missing \/ Get(lookup, key, Missing) \in Seq(S)
    <2>1. CASE Has(lookup, key)
      <3>1. key \in DOMAIN lookup /\ Get(lookup, key, Missing) = lookup[key] /\ IsSequence(lookup[key])
        BY <2>1 DEF Has, Get
      <3>2. letters(lookup[key]) \subseteq S
        <4> HIDE DEF letters
        <4> QED BY <3>1
      <3> HIDE DEF letters, S
      <3> QED BY <1>2, <3>1, <3>2
    <2>2. CASE ~Has(lookup, key)
      BY <2>2 DEF Get
    <2> QED BY <2>1, <2>2
  <1>4. Missing \in S /\ \A i \in 1 .. n : arg[i] \in S
    BY <1>1 DEF OfLength
  <1> HIDE DEF n, S, letters, pieces
  <1>5. Substitute(arg, lookup) =
          IF \E i \in DOMAIN pieces : TextOf(lookup, pieces[i]) = Missing THEN Rejected
          ELSE FlattenSeq(TextsOf(lookup, pieces))
    BY DEF Substitute, TextOf, TextsOf, pieces
  <1>6. \A i \in DOMAIN pieces : TextOf(lookup, pieces[i]) # Missing
    BY <1>5
  <1>7. FlattenSeq(TextsOf(lookup, pieces)) = FlattenSeq([k \in DOMAIN arg |-> Part(arg, lookup, k)])
    BY <1>1, <1>3, <1>4, <1>6, ScanFills DEF pieces
  <1> QED BY <1>5, <1>6, <1>7

-----------------------------------------------------------------------------
(* Arguments are as they are written.                                      *)

\* What Launch looks variables up in.
Looked(service, penv) ==
  [key \in (DOMAIN penv) \cup (DOMAIN service.env) |-> ServiceValue(service, penv, key)]

\* The lookup that a command is given has the values of its service.
LEMMA LookupFinds ==
  ASSUME NEW service, NEW penv, NEW key
  PROVE  Get(Looked(service, penv), key, Missing) = ServiceValue(service, penv, key)
  <1> DEFINE lookup == Looked(service, penv)
  <1>1. /\ DOMAIN lookup = (DOMAIN penv) \cup (DOMAIN service.env)
        /\ \A k \in DOMAIN lookup : lookup[k] = ServiceValue(service, penv, k)
    BY DEF Looked
  <1> HIDE DEF lookup
  <1>2. CASE key \in DOMAIN lookup
    BY <1>1, <1>2 DEF Get, Has, lookup
  <1>3. CASE key \notin DOMAIN lookup
    BY <1>1, <1>3 DEF Get, Has, ServiceValue, lookup
  <1> QED BY <1>2, <1>3

\* Filled, in terms of that lookup.
LEMMA FilledIs ==
  ASSUME NEW arg, NEW service, NEW penv
  PROVE  Filled(arg, service, penv) =
           FlattenSeq([k \in DOMAIN arg |-> Part(arg, Looked(service, penv), k)])
  <1> DEFINE filled(k) ==
        IF \E h \in Holes(arg) : h[1] = k
        THEN LET h == CHOOSE h \in Holes(arg) : h[1] = k
                 value == ServiceValue(service, penv, SubSeq(arg, k + 1, h[2] - 1))
             IN IF value = Missing THEN <<Missing>> ELSE value
        ELSE IF \E h \in Holes(arg) : h[1] < k /\ k <= h[2] THEN <<>> ELSE <<arg[k]>>
  <1>1. Filled(arg, service, penv) = FlattenSeq([k \in DOMAIN arg |-> filled(k)])
    BY DEF Filled
  <1>2. \A k : filled(k) = Part(arg, Looked(service, penv), k)
    BY LookupFinds DEF Part, Inside
  <1> HIDE DEF filled
  <1>3. [k \in DOMAIN arg |-> filled(k)] =
          [k \in DOMAIN arg |-> Part(arg, Looked(service, penv), k)]
    BY <1>2
  <1> QED BY <1>1, <1>3

\* Of an accepted file the arguments and the values of variables are texts.
LEMMA ServiceTexts ==
  ASSUME NEW file, WellFormed(file), BuildManifest(file) # Rejected,
         NEW i \in DOMAIN file.services, NEW service, service = BuildManifest(file).services[i]
  PROVE  /\ \A k \in DOMAIN service.command : service.command # <<>> => IsSequence(service.command[k])
         /\ \A key \in DOMAIN service.env : IsSequence(service.env[key])
  <1> DEFINE raw == file.services[i][2]
  <1>1. /\ service = ParseService(file.services[i][1], raw)
        /\ ParseService(file.services[i][1], raw) # Rejected
        /\ Get(file, "services", Wrong) # Wrong
    <2>1. /\ Has(file, "services") /\ file.services # Wrong
          /\ BuildManifest(file).services =
               [k \in DOMAIN file.services |->
                  ParseService(file.services[k][1], file.services[k][2])]
          /\ \A k \in DOMAIN file.services :
               ParseService(file.services[k][1], file.services[k][2]) # Rejected
      BY ManifestBuilt
    <2> QED BY <2>1 DEF Get
  <1>2. /\ service = AsRead(file.services[i][1], raw)
        /\ raw # Wrong
        /\ Has(raw, "command") => TextList(raw.command)
        /\ Has(raw, "env") => TextMap(raw.env)
    BY <1>1, ServiceParsed DEF OnlyKeys
  <1>3. /\ Get(raw, "command", Wrong) # Wrong =>
              \A k \in DOMAIN raw.command : raw.command[k] # Wrong => IsSequence(raw.command[k])
        /\ Get(raw, "env", Wrong) # Wrong =>
              \A key \in DOMAIN raw.env : raw.env[key] # Wrong => IsSequence(raw.env[key])
    BY <1>1, <1>2 DEF WellFormed
  <1> HIDE DEF raw
  <1>4. service.command = Get(raw, "command", <<>>) /\ service.env = Get(raw, "env", <<>>)
    BY <1>2 DEF AsRead
  <1>5. \A k \in DOMAIN service.command : service.command # <<>> => IsSequence(service.command[k])
    <2>1. CASE Has(raw, "command")
      BY <1>2, <1>3, <1>4, <2>1 DEF Get, TextList, IsText
    <2>2. CASE ~Has(raw, "command")
      BY <1>4, <2>2 DEF Get
    <2> QED BY <2>1, <2>2
  <1>6. \A key \in DOMAIN service.env : IsSequence(service.env[key])
    <2>1. CASE Has(raw, "env")
      BY <1>2, <1>3, <1>4, <2>1 DEF Get, TextMap
    <2>2. CASE ~Has(raw, "env")
      BY <1>4, <2>2 DEF Get
    <2> QED BY <2>1, <2>2
  <1> QED BY <1>5, <1>6

\* Whatever an argument is and whatever the variables hold, a service is started
\* with what is written, each placeholder replaced by its value wherever it stands
\* and nothing else touched (resolve_command, substitute_placeholders).
THEOREM ArgumentsAreFilled == StartupSpec => []ArgumentsAsWritten
<1>1. StartupInv => ArgumentsAsWritten
  <2> SUFFICES ASSUME StartupInv, phase = "ready" PROVE ArgumentsAsWritten
    BY DEF ArgumentsAsWritten
  <2>1. PICK file, penv, read : case.file = file /\ case.penv = penv /\ manifest = read
    OBVIOUS
  <2>2. WellFormed(file) /\ Valued(penv)
    BY <2>1, StartupAssumption DEF StartupInv
  <2>3. read = BuildManifest(file) /\ BuildManifest(file) # Rejected
    BY <2>1 DEF StartupInv, Accepted
  <2>4. /\ launches = [i \in DOMAIN read.services |-> Launch(read.services[i], penv)]
        /\ \A i \in DOMAIN read.services : launches[i] # Rejected
    BY <2>1 DEF StartupInv
  <2>5. DOMAIN launches = DOMAIN read.services /\ DOMAIN read.services = DOMAIN file.services
    BY <2>3, <2>4, ManifestBuilt
  <2>6. ASSUME NEW i \in DOMAIN read.services, launches[i] # NoLaunch
        PROVE  launches[i].command =
                 [k \in DOMAIN read.services[i].command |->
                    Filled(read.services[i].command[k], read.services[i], penv)]
    <3>1. PICK service : service = read.services[i]
      OBVIOUS
    <3> DEFINE lookup == Looked(service, penv)
               args == [k \in DOMAIN service.command |-> Substitute(service.command[k], lookup)]
    <3>2. launches[i] = Launch(service, penv) /\ launches[i] # Rejected
      BY <2>4, <2>6, <3>1
    <3>3. /\ launches[i].command = ResolveCommand(service.command, lookup)
          /\ ResolveCommand(service.command, lookup) # Rejected
          /\ service.command # <<>>
      BY <2>6, <3>2 DEF Launch, Looked
    <3>4. launches[i].command = args /\ \A k \in DOMAIN args : args[k] # Rejected
      <4> HIDE DEF lookup
      <4> QED BY <3>3 DEF ResolveCommand
    <3>5. /\ \A k \in DOMAIN service.command : IsSequence(service.command[k])
          /\ \A key \in DOMAIN service.env : IsSequence(service.env[key])
      BY <2>2, <2>3, <2>5, <2>6, <3>1, <3>3, ServiceTexts
    <3>6. \A key \in DOMAIN lookup : lookup[key] = Missing \/ IsSequence(lookup[key])
      <4> TAKE key \in DOMAIN lookup
      <4>1. lookup[key] = ServiceValue(service, penv, key)
        BY DEF Looked
      <4> HIDE DEF lookup
      <4>2. CASE Get(penv, key, NotUnicode) # NotUnicode
        <5>1. key \in DOMAIN penv /\ penv[key] # NotUnicode /\ lookup[key] = penv[key]
          BY <4>1, <4>2 DEF ServiceValue, Get, Has
        <5> QED BY <2>2, <5>1 DEF Valued
      <4>3. CASE Get(penv, key, NotUnicode) = NotUnicode
        BY <3>5, <4>1, <4>3 DEF ServiceValue, Get, Has
      <4> QED BY <4>2, <4>3
    <3>7. ASSUME NEW k \in DOMAIN service.command
          PROVE  args[k] = Filled(service.command[k], service, penv)
      <4>1. args[k] = Substitute(service.command[k], lookup) /\ args[k] # Rejected
        BY <3>4
      <4>2. Substitute(service.command[k], lookup) =
              FlattenSeq([j \in DOMAIN service.command[k] |-> Part(service.command[k], lookup, j)])
        <5> HIDE DEF lookup
        <5> QED BY <3>5, <3>6, <4>1, ArgumentFilled
      <4> QED BY <4>1, <4>2, FilledIs
    <3>8. args = [k \in DOMAIN service.command |-> Filled(service.command[k], service, penv)]
      BY <3>7
    <3> QED BY <3>1, <3>4, <3>8
  <2> QED BY <2>1, <2>5, <2>6 DEF ArgumentsAsWritten
<1> QED BY <1>1, StartupInvariance, PTL

=============================================================================
