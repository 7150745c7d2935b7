--------------------------- MODULE ExposureProofs ---------------------------
(***************************************************************************)
(* Proofs about ExposureRegistry, for all sets of tools, hosts, domains    *)
(* and reports.  Every step leaves in memory and on disk a registry that   *)
(* was there before, what a start loads of one, or the result of one       *)
(* operator applied to the one in memory: the lemmas say what each         *)
(* operator keeps, and the theorems put them together.                     *)
(***************************************************************************)
EXTENDS ExposureRegistry, TLAPS

USE DEF Kind, AnyKind, Upstream, Health,
        NewAddress, NewUrl, NewExposure, Exposed, NewBinding, Verified, Unbound

-----------------------------------------------------------------------------
(* Types: each operator yields a registry.                                 *)

(* A verdict is one of three, whatever the tool and the host.              *)
LEMMA VerdictType ==
    ASSUME NEW tool \in Tool \cup {None}, NEW host
    PROVE  Verdicts(tool, host) \subseteq Verdict
BY DEF Verdicts, Verdict

(* Issuing an address, with its public URL and exposure for a website.     *)
LEMMA WithAddressType ==
    ASSUME NEW r \in Registry, NEW t \in Tools, NEW k \in Kinds, NEW s \in Subjects,
           NEW host \in Host, NEW v \in Verdict
    PROVE  WithAddress(r, t, k, s, host, v) \in Registry
<1>1. ([status |-> Granted(v, "requested"), host |-> host]) \in Address
  BY DEF Granted, Address
<1>2. ([status |-> Granted(v, "pending"), host |-> host]) \in PublicUrl
  BY DEF Granted, PublicUrl
<1>3. ([status |-> Granted(v, v), host |-> host]) \in Exposure
  BY DEF Granted, Exposure, Verdict
<1> DEFINE issued == [r EXCEPT !.address[<<t, k, s>>] =
                        [status |-> Granted(v, "requested"), host |-> host]]
<1>4. issued \in Registry
  BY <1>1 DEF Registry, AddressKey
<1>5. CASE k # "website"
  BY <1>4, <1>5 DEF WithAddress
<1>6. CASE k = "website"
  <2> HIDE DEF issued
  <2>1. [issued EXCEPT
           !.publicUrl[t] = [status |-> Granted(v, "pending"), host |-> host],
           !.exposure[t] = [status |-> Granted(v, v), host |-> host]] \in Registry
    BY <1>2, <1>3, <1>4 DEF Registry
  <2> QED  BY <2>1, <1>6 DEF WithAddress, issued
<1> QED  BY <1>5, <1>6

(* The records keep their types when they are revoked.                     *)
LEMMA RevokeType ==
    /\ \A x \in Address \cup {None} : Revoke(x) \in Address \cup {None}
    /\ \A x \in PublicUrl \cup {None} : Revoke(x) \in PublicUrl \cup {None}
    /\ \A x \in Exposure \cup {None} : Revoke(x) \in Exposure \cup {None}
    /\ \A x \in Binding \cup {None} : Revoke(x) \in Binding \cup {None}
BY DEF Revoke, Address, PublicUrl, Exposure, Binding

(* Revoking addresses.                                                     *)
LEMMA WithoutAddressesType ==
    ASSUME NEW r \in Registry, NEW t \in Tools, NEW kinds \in SUBSET Kinds
    PROVE  WithoutAddresses(r, t, kinds) \in Registry
<1>1. [k \in AddressKey |-> IF k \in AddressesOf(t, kinds) THEN Revoke(r.address[k])
                            ELSE r.address[k]] \in [AddressKey -> Address \cup {None}]
  BY RevokeType DEF Registry
<1>2. Revoke(r.publicUrl[t]) \in PublicUrl \cup {None}
  BY RevokeType DEF Registry
<1> QED  BY <1>1, <1>2 DEF WithoutAddresses, Registry

(* Withdrawing a tool.                                                     *)
LEMMA WithdrawnType ==
    ASSUME NEW r \in Registry, NEW t \in Tools
    PROVE  Withdrawn(r, t) \in Registry
<1>1. [k \in AddressKey |-> IF k[1] = t THEN Revoke(r.address[k]) ELSE r.address[k]]
        \in [AddressKey -> Address \cup {None}]
  BY RevokeType DEF Registry
<1>2. [d \in Domains |-> IF r.domain[d] # None /\ r.domain[d].tool = t
                         THEN Revoke(r.domain[d]) ELSE r.domain[d]]
        \in [Domains -> Binding \cup {None}]
  BY RevokeType DEF Registry
<1>3. /\ Revoke(r.publicUrl[t]) \in PublicUrl \cup {None}
      /\ Revoke(r.exposure[t]) \in Exposure \cup {None}
  BY RevokeType DEF Registry
<1> QED  BY <1>1, <1>2, <1>3 DEF Withdrawn, Registry

(* The tool records that registrations, patches and heartbeats make.       *)
LEMMA ReportedType ==
    ASSUME NEW tool \in Tool, NEW report \in Report
    PROVE  Reported(tool, report) \in Tool
BY DEF Reported, Report, Tool, Given

(* A registration makes a tool record, from a previous one or from none.   *)
LEMMA RebuiltType ==
    ASSUME NEW previous \in Tool \cup {None}, NEW report \in Report
    PROVE  Rebuilt(previous, report) \in Tool
<1>1. NewTool \in Tool
  BY DEF NewTool, Tool
<1> QED  BY <1>1, ReportedType DEF Rebuilt

(* The sanitisers know every status that is ever written: a start leaves   *)
(* out addresses of unknown kinds and tools without a description, and     *)
(* reads everything else as it was.                                        *)
LEMMA LoadedIsStored ==
    ASSUME NEW r \in Registry
    PROVE  /\ Loaded(r) \in Registry
           /\ Loaded(r).publicUrl = r.publicUrl
           /\ Loaded(r).exposure = r.exposure
           /\ Loaded(r).domain = r.domain
           /\ \A k \in AddressKey :
                Loaded(r).address[k] = IF k[2] \in Kind THEN r.address[k] ELSE None
           /\ \A t \in Tools :
                Loaded(r).tool[t] = IF r.tool[t] # None /\ r.tool[t].described
                                    THEN r.tool[t] ELSE None
<1>1. \A t \in Tools : ToolLoaded(r.tool[t]) =
        IF r.tool[t] # None /\ r.tool[t].described THEN r.tool[t] ELSE None
  BY DEF ToolLoaded, Registry, Tool
<1>2. \A k \in AddressKey : AddressLoaded(k, r.address[k]) =
        IF k[2] \in Kind THEN r.address[k] ELSE None
  BY DEF AddressLoaded, Known, Registry, Address
<1>3. \A t \in Tools : UrlLoaded(r.publicUrl[t]) = r.publicUrl[t]
  BY DEF UrlLoaded, Known, Registry, PublicUrl
<1>4. \A t \in Tools : ExposureLoaded(r.exposure[t]) = r.exposure[t]
  BY DEF ExposureLoaded, Known, Registry, Exposure
<1>5. \A d \in Domains : BindingLoaded(r.domain[d]) = r.domain[d]
  BY DEF BindingLoaded, Known, Registry, Binding
<1> HIDE DEF Kind
<1>6. Loaded(r).publicUrl = r.publicUrl
  BY <1>3 DEF Loaded, Registry
<1>7. Loaded(r).exposure = r.exposure
  BY <1>4 DEF Loaded, Registry
<1>8. Loaded(r).domain = r.domain
  BY <1>5 DEF Loaded, Registry
<1>9. \A k \in AddressKey :
        Loaded(r).address[k] = IF k[2] \in Kind THEN r.address[k] ELSE None
  BY <1>2 DEF Loaded
<1>10. \A t \in Tools :
        Loaded(r).tool[t] = IF r.tool[t] # None /\ r.tool[t].described
                            THEN r.tool[t] ELSE None
  BY <1>1 DEF Loaded
<1>11. Loaded(r) \in Registry
  <2>1. Loaded(r).tool \in [Tools -> Tool \cup {None}]
    BY <1>1 DEF Loaded, Registry
  <2>2. Loaded(r).address \in [AddressKey -> Address \cup {None}]
    BY <1>2 DEF Loaded, Registry
  <2> QED  BY <1>6, <1>7, <1>8, <2>1, <2>2 DEF Loaded, Registry
<1> QED  BY <1>6, <1>7, <1>8, <1>9, <1>10, <1>11

-----------------------------------------------------------------------------
(* The strengthening.  Backed speaks of one registry already; the other    *)
(* two parts are about what is recorded, routed or not.                    *)

Admitted(r, dec) ==
    /\ \A t \in Tools, k \in Kinds, s \in Subjects :
         Active(r.address[t, k, s]) => dec[t, k] # None
    /\ \A d \in Domains : r.domain[d] # None => dec[r.domain[d].tool, d] # None

Unreachable(r, t) ==
    /\ \A k \in Kinds, s \in Subjects : ~Active(r.address[t, k, s])
    /\ ~Active(r.exposure[t])
    /\ \A d \in Domains :
         (r.domain[d] # None /\ r.domain[d].tool = t) => r.domain[d].status # "verified"

Darkened(r, tools) == \A t \in tools : Unreachable(r, t)

Sound(r, dec, tools) ==
    r \in Registry /\ Backed(r) /\ Admitted(r, dec) /\ Darkened(r, tools)

Decisions == [Tools \X Matter -> Decision \cup {None}]

GatesTyped == gateSet \subseteq Tools /\ dropped \subseteq Tools

IInv == TypeOK /\ Sound(mem, decisions, dark) /\ Sound(disk, decisions, dark)

(* Decisions are overwritten but never taken back, so a sound registry     *)
(* stays sound when decisions are added or tools leave the dark.           *)
Stay(dec, next) == \A s \in Tools \X Matter : dec[s] # None => next[s] # None

(* Deciding more, or asking for a tool again, keeps a registry sound.      *)
LEMMA SoundMonotone ==
    ASSUME NEW r, NEW dec, NEW next, NEW tools \in SUBSET Tools,
           NEW fewer \in SUBSET tools,
           Sound(r, dec, tools), Stay(dec, next)
    PROVE  Sound(r, next, fewer)
<1>1. \A t \in Tools, k \in Kinds : dec[t, k] # None => next[t, k] # None
  BY DEF Stay, Matter
<1>2. \A d \in Domains : r.domain[d] # None =>
        (dec[r.domain[d].tool, d] # None => next[r.domain[d].tool, d] # None)
  BY DEF Stay, Matter, Sound, Registry, Binding
<1> QED  BY <1>1, <1>2 DEF Sound, Admitted, Darkened

(* Soundness does not depend on the tools' own records.                    *)
LEMMA SoundSameRecords ==
    ASSUME NEW r, NEW next \in Registry, NEW dec, NEW tools, Sound(r, dec, tools),
           next.address = r.address, next.publicUrl = r.publicUrl,
           next.exposure = r.exposure, next.domain = r.domain
    PROVE  Sound(next, dec, tools)
<1>1. Backed(next)
  BY DEF Sound, Backed
<1>2. Admitted(next, dec)
  BY DEF Sound, Admitted
<1>3. Darkened(next, tools)
  BY DEF Sound, Darkened, Unreachable
<1> QED  BY <1>1, <1>2, <1>3 DEF Sound

(* Setting one tool's record keeps a registry sound.                       *)
LEMMA SetToolSound ==
    ASSUME NEW r \in Registry, NEW dec, NEW tools, Sound(r, dec, tools),
           NEW t \in Tools, NEW tool \in Tool \cup {None}
    PROVE  Sound([r EXCEPT !.tool[t] = tool], dec, tools)
<1> DEFINE next == [r EXCEPT !.tool[t] = tool]
<1>1. next \in Registry
  BY DEF Registry
<1>2. /\ next.address = r.address /\ next.publicUrl = r.publicUrl
      /\ next.exposure = r.exposure /\ next.domain = r.domain
  BY DEF Registry
<1> QED  BY <1>1, <1>2, SoundSameRecords

(* What a start loads of a sound registry is sound.                        *)
LEMMA LoadedSound ==
    ASSUME NEW r \in Registry, NEW dec, NEW tools \in SUBSET Tools, Sound(r, dec, tools)
    PROVE  Sound(Loaded(r), dec, tools)
<1> DEFINE next == Loaded(r)
<1>1. /\ next \in Registry /\ next.publicUrl = r.publicUrl
      /\ next.exposure = r.exposure /\ next.domain = r.domain
  BY LoadedIsStored
<1>2. \A t \in Tools, k \in Kinds, s \in Subjects :
        next.address[t, k, s] = IF k \in Kind THEN r.address[t, k, s] ELSE None
  <2> HIDE DEF next, Kind
  <2>1. \A key \in AddressKey :
          next.address[key] = IF key[2] \in Kind THEN r.address[key] ELSE None
    BY LoadedIsStored DEF next
  <2>2. \A t \in Tools, k \in Kinds, s \in Subjects :
          <<t, k, s>> \in AddressKey /\ <<t, k, s>>[2] = k
    BY DEF AddressKey
  <2> QED  BY <2>1, <2>2
<1> HIDE DEF next
<1>3. Backed(next)
  <2>1. \A t \in Tools, s \in Subjects :
          next.address[t, "website", s] = r.address[t, "website", s]
    BY <1>2, ExposureAssumption DEF ExposureAssumption
  <2> QED  BY <1>1, <2>1 DEF Sound, Backed
<1>4. \A t \in Tools, k \in Kinds, s \in Subjects :
        Active(next.address[t, k, s]) => Active(r.address[t, k, s])
  BY <1>2 DEF Active
<1>5. Admitted(next, dec)
  BY <1>1, <1>4 DEF Sound, Admitted
<1>6. Darkened(next, tools)
  <2> SUFFICES ASSUME NEW t \in tools PROVE Unreachable(next, t)
    BY DEF Darkened
  <2>1. Unreachable(r, t) /\ t \in Tools
    BY DEF Sound, Darkened
  <2> QED  BY <1>1, <1>4, <2>1 DEF Unreachable
<1> QED  BY <1>1, <1>3, <1>5, <1>6 DEF Sound, next

(* Issuing an address whose decision is recorded.                          *)
LEMMA WithAddressSound ==
    ASSUME NEW r \in Registry, NEW dec, NEW tools \in SUBSET Tools,
           Sound(r, dec, tools),
           NEW t \in Tools, NEW k \in Kinds, NEW s \in Subjects, NEW host \in Host,
           NEW v \in Verdict, t \notin tools, dec[t, k] # None
    PROVE  Sound(WithAddress(r, t, k, s, host, v), dec, tools)
<1> DEFINE next == WithAddress(r, t, k, s, host, v)
<1> DEFINE address == [status |-> Granted(v, "requested"), host |-> host]
<1> DEFINE url == [status |-> Granted(v, "pending"), host |-> host]
<1> DEFINE exposure == [status |-> Granted(v, v), host |-> host]
<1>0. next \in Registry
  BY WithAddressType
<1>1. /\ next.address = [r.address EXCEPT ![<<t, k, s>>] = address]
      /\ next.domain = r.domain
      /\ k # "website" => next.publicUrl = r.publicUrl /\ next.exposure = r.exposure
      /\ k = "website" => /\ next.publicUrl = [r.publicUrl EXCEPT ![t] = url]
                          /\ next.exposure = [r.exposure EXCEPT ![t] = exposure]
  BY DEF WithAddress, Registry
<1> HIDE DEF next
<1>2. /\ next.address[t, k, s] = address
      /\ \A t2 \in Tools, k2 \in Kinds, s2 \in Subjects :
           <<t2, k2, s2>> # <<t, k, s>> => next.address[t2, k2, s2] = r.address[t2, k2, s2]
  BY <1>1 DEF Registry, AddressKey
<1>3. Backed(next)
  <2> SUFFICES ASSUME NEW x \in Tools, Active(next.publicUrl[x])
               PROVE  \E s2 \in Subjects :
                        /\ Active(next.address[x, "website", s2])
                        /\ next.address[x, "website", s2].host = next.publicUrl[x].host
    BY DEF Backed
  <2>1. CASE k = "website" /\ x = t
    <3>1. next.publicUrl[x] = url
      BY <1>1, <2>1 DEF Registry
    <3>2. v = "approved"
      <4>1. url.status = "active"
        BY <3>1 DEF Active
      <4> QED  BY <4>1 DEF Granted
    <3>3. address # None
      <4>1. address \in Address
        BY DEF Granted, Address
      <4> QED  BY <4>1, ExposureAssumption DEF ExposureAssumption
    <3>4. Active(address) /\ address.host = url.host
      BY <3>2, <3>3 DEF Active, Granted
    <3> QED  BY <3>1, <3>4, <1>2, <2>1
  <2>2. CASE ~(k = "website" /\ x = t)
    <3>1. next.publicUrl[x] = r.publicUrl[x]
      BY <1>1, <2>2 DEF Registry
    <3>2. \A s2 \in Subjects : next.address[x, "website", s2] = r.address[x, "website", s2]
      BY <1>2, <2>2, ExposureAssumption DEF ExposureAssumption
    <3> QED  BY <3>1, <3>2 DEF Sound, Backed
  <2> QED  BY <2>1, <2>2
<1>4. Admitted(next, dec)
  <2>1. ASSUME NEW t2 \in Tools, NEW k2 \in Kinds, NEW s2 \in Subjects,
               Active(next.address[t2, k2, s2])
        PROVE  dec[t2, k2] # None
    <3>1. CASE <<t2, k2, s2>> = <<t, k, s>>
      BY <3>1
    <3>2. CASE <<t2, k2, s2>> # <<t, k, s>>
      BY <1>2, <2>1, <3>2 DEF Sound, Admitted
    <3> QED  BY <3>1, <3>2
  <2>2. \A d \in Domains : next.domain[d] # None => dec[next.domain[d].tool, d] # None
    BY <1>1 DEF Sound, Admitted
  <2> QED  BY <2>1, <2>2 DEF Admitted
<1>5. Darkened(next, tools)
  <2> SUFFICES ASSUME NEW x \in tools  PROVE Unreachable(next, x)
    BY DEF Darkened
  <2>1. Unreachable(r, x) /\ x \in Tools /\ x # t
    BY DEF Sound, Darkened
  <2>2. \A k2 \in Kinds, s2 \in Subjects : next.address[x, k2, s2] = r.address[x, k2, s2]
    BY <1>2, <2>1
  <2>3. next.exposure[x] = r.exposure[x]
    BY <1>1, <2>1 DEF Registry
  <2> QED  BY <1>1, <2>1, <2>2, <2>3 DEF Unreachable
<1> QED  BY <1>0, <1>3, <1>4, <1>5 DEF Sound, next

(* An exposure of a tool that is not in the dark.                          *)
LEMMA SetExposureSound ==
    ASSUME NEW r \in Registry, NEW dec, NEW tools \in SUBSET Tools,
           Sound(r, dec, tools),
           NEW t \in Tools, NEW exposure \in Exposure, t \notin tools
    PROVE  Sound([r EXCEPT !.exposure[t] = exposure], dec, tools)
<1> DEFINE next == [r EXCEPT !.exposure[t] = exposure]
<1>1. next \in Registry
  BY DEF Registry
<1>2. /\ next.address = r.address /\ next.publicUrl = r.publicUrl
      /\ next.domain = r.domain
      /\ \A x \in Tools : x # t => next.exposure[x] = r.exposure[x]
  BY DEF Registry
<1> HIDE DEF next
<1>3. Backed(next)
  BY <1>2 DEF Sound, Backed
<1>4. Admitted(next, dec)
  BY <1>2 DEF Sound, Admitted
<1>5. Darkened(next, tools)
  <2> SUFFICES ASSUME NEW x \in tools  PROVE Unreachable(next, x)
    BY DEF Darkened
  <2>1. Unreachable(r, x) /\ x \in Tools /\ x # t
    BY DEF Sound, Darkened
  <2> QED  BY <1>2, <2>1 DEF Unreachable
<1> QED  BY <1>1, <1>3, <1>4, <1>5 DEF Sound, next

(* A revoked record is not active.                                         *)
LEMMA RevokeInactive ==
    /\ \A x \in Address : ~Active(Revoke(x))
    /\ \A x \in PublicUrl : ~Active(Revoke(x))
    /\ \A x \in Exposure : ~Active(Revoke(x))
    /\ \A x \in Binding : Revoke(x).status # "verified" /\ Revoke(x).tool = x.tool
    /\ Revoke(None) = None
<1>1. \A x \in Address : ~Active(Revoke(x))
  BY DEF Revoke, Active, Address
<1>2. \A x \in PublicUrl : ~Active(Revoke(x))
  BY DEF Revoke, Active, PublicUrl
<1>3. \A x \in Exposure : ~Active(Revoke(x))
  BY DEF Revoke, Active, Exposure
<1>4. \A x \in Binding : Revoke(x).status # "verified" /\ Revoke(x).tool = x.tool
  BY ExposureAssumption DEF Revoke, Binding, ExposureAssumption
<1>5. Revoke(None) = None
  BY DEF Revoke
<1> QED  BY <1>1, <1>2, <1>3, <1>4, <1>5

(* Addresses of a tool, of one kind or of all, with the public URL.        *)
LEMMA WithoutAddressesSound ==
    ASSUME NEW r \in Registry, NEW dec, NEW tools \in SUBSET Tools,
           Sound(r, dec, tools), NEW t \in Tools, NEW kinds \in SUBSET Kinds
    PROVE  Sound(WithoutAddresses(r, t, kinds), dec, tools)
<1> DEFINE next == WithoutAddresses(r, t, kinds)
<1> DEFINE revoked == Held(r, AddressesOf(t, kinds \cap {"website"})) # {}
<1>1. next \in Registry
  BY WithoutAddressesType
<1>2. /\ next.exposure = r.exposure /\ next.domain = r.domain
      /\ next.publicUrl = [r.publicUrl EXCEPT ![t] = IF revoked THEN Revoke(@) ELSE @]
      /\ next.address = [k \in AddressKey |->
            IF k \in AddressesOf(t, kinds) THEN Revoke(r.address[k]) ELSE r.address[k]]
  BY DEF WithoutAddresses, Registry
<1> HIDE DEF next
<1>3. \A t2 \in Tools, k2 \in Kinds, s2 \in Subjects :
        IF t2 = t /\ k2 \in kinds
        THEN next.address[t2, k2, s2] = Revoke(r.address[t2, k2, s2])
        ELSE next.address[t2, k2, s2] = r.address[t2, k2, s2]
  BY <1>2 DEF AddressKey, AddressesOf
<1>4. \A t2 \in Tools, k2 \in Kinds, s2 \in Subjects :
        Active(next.address[t2, k2, s2]) =>
          /\ next.address[t2, k2, s2] = r.address[t2, k2, s2]
          /\ ~(t2 = t /\ k2 \in kinds)
  <2> SUFFICES ASSUME NEW t2 \in Tools, NEW k2 \in Kinds, NEW s2 \in Subjects,
                      Active(next.address[t2, k2, s2])
               PROVE  ~(t2 = t /\ k2 \in kinds)
    BY <1>3
  <2>1. r.address[t2, k2, s2] \in Address \cup {None}
    BY DEF Registry, AddressKey
  <2>2. ~Active(Revoke(r.address[t2, k2, s2]))
    BY <2>1, RevokeInactive DEF Active
  <2> QED  BY <1>3, <2>2
<1>5. Backed(next)
  <2> SUFFICES ASSUME NEW x \in Tools, Active(next.publicUrl[x])
               PROVE  \E s2 \in Subjects :
                        /\ Active(next.address[x, "website", s2])
                        /\ next.address[x, "website", s2].host = next.publicUrl[x].host
    BY DEF Backed
  <2>1. next.publicUrl[x] = r.publicUrl[x] /\ ~(x = t /\ revoked)
    <3>1. CASE x = t /\ revoked
      <4>1. next.publicUrl[x] = Revoke(r.publicUrl[x])
        BY <1>2, <3>1 DEF Registry
      <4>2. r.publicUrl[x] \in PublicUrl \cup {None}
        BY DEF Registry
      <4>3. ~Active(next.publicUrl[x])
        BY <4>1, <4>2, RevokeInactive DEF Active
      <4> QED  BY <4>3
    <3>2. CASE ~(x = t /\ revoked)
      BY <1>2, <3>2 DEF Registry
    <3> QED  BY <3>1, <3>2
  <2>2. "website" \in Kinds
    BY ExposureAssumption DEF ExposureAssumption
  <2>3. PICK s2 \in Subjects :
          /\ Active(r.address[x, "website", s2])
          /\ r.address[x, "website", s2].host = r.publicUrl[x].host
    BY <2>1 DEF Sound, Backed
  <2>4. ~(x = t /\ "website" \in kinds)
    <3> SUFFICES ASSUME x = t, "website" \in kinds  PROVE FALSE
      OBVIOUS
    <3>1. <<x, "website", s2>> \in AddressesOf(t, kinds \cap {"website"})
      BY <2>2 DEF AddressesOf, AddressKey
    <3>2. <<x, "website", s2>> \in Held(r, AddressesOf(t, kinds \cap {"website"}))
      BY <2>3, <3>1 DEF Held, Active
    <3> QED  BY <2>1, <3>2
  <2>5. next.address[x, "website", s2] = r.address[x, "website", s2]
    BY <1>3, <2>2, <2>4
  <2> QED  BY <2>1, <2>3, <2>5
<1>6. Admitted(next, dec)
  <2>1. ASSUME NEW t2 \in Tools, NEW k2 \in Kinds, NEW s2 \in Subjects,
               Active(next.address[t2, k2, s2])
        PROVE  dec[t2, k2] # None
    <3>1. Active(r.address[t2, k2, s2])
      BY <1>4, <2>1
    <3> QED  BY <3>1 DEF Sound, Admitted
  <2>2. \A d \in Domains : next.domain[d] # None => dec[next.domain[d].tool, d] # None
    BY <1>2 DEF Sound, Admitted
  <2> QED  BY <2>1, <2>2 DEF Admitted
<1>7. Darkened(next, tools)
  <2> SUFFICES ASSUME NEW x \in tools  PROVE Unreachable(next, x)
    BY DEF Darkened
  <2>1. Unreachable(r, x) /\ x \in Tools
    BY DEF Sound, Darkened
  <2>2. ASSUME NEW k2 \in Kinds, NEW s2 \in Subjects,
               Active(next.address[x, k2, s2])
        PROVE  FALSE
    <3>1. Active(r.address[x, k2, s2])
      BY <1>4, <2>1, <2>2
    <3> QED  BY <2>1, <3>1 DEF Unreachable
  <2> QED  BY <1>2, <2>1, <2>2 DEF Unreachable
<1> QED  BY <1>1, <1>5, <1>6, <1>7 DEF Sound, next

(* A tool whose exposure is revoked is unreachable.                        *)
LEMMA WithdrawnSound ==
    ASSUME NEW r \in Registry, NEW dec, NEW tools \in SUBSET Tools,
           Sound(r, dec, tools), NEW t \in Tools
    PROVE  Sound(Withdrawn(r, t), dec, tools \cup {t})
<1> DEFINE next == Withdrawn(r, t)
<1>1. next \in Registry
  BY WithdrawnType
<1>2. /\ next.exposure = [r.exposure EXCEPT ![t] = Revoke(@)]
      /\ next.publicUrl = [r.publicUrl EXCEPT ![t] = Revoke(@)]
      /\ next.address = [k \in AddressKey |->
            IF k[1] = t THEN Revoke(r.address[k]) ELSE r.address[k]]
      /\ next.domain = [d \in Domains |->
            IF r.domain[d] # None /\ r.domain[d].tool = t
            THEN Revoke(r.domain[d]) ELSE r.domain[d]]
  BY DEF Withdrawn, Registry
<1> HIDE DEF next
<1>3. \A t2 \in Tools, k2 \in Kinds, s2 \in Subjects :
        /\ t2 # t => next.address[t2, k2, s2] = r.address[t2, k2, s2]
        /\ t2 = t => ~Active(next.address[t2, k2, s2])
  <2> SUFFICES ASSUME NEW t2 \in Tools, NEW k2 \in Kinds, NEW s2 \in Subjects
               PROVE  /\ t2 # t => next.address[t2, k2, s2] = r.address[t2, k2, s2]
                      /\ t2 = t => ~Active(next.address[t2, k2, s2])
    OBVIOUS
  <2>1. r.address[t2, k2, s2] \in Address \cup {None}
    BY DEF Registry, AddressKey
  <2>2. ~Active(Revoke(r.address[t2, k2, s2]))
    BY <2>1, RevokeInactive DEF Active
  <2>3. next.address[t2, k2, s2] =
          IF t2 = t THEN Revoke(r.address[t2, k2, s2]) ELSE r.address[t2, k2, s2]
    BY <1>2 DEF AddressKey
  <2> QED  BY <2>2, <2>3
<1>4. \A x \in Tools :
        /\ x # t => next.exposure[x] = r.exposure[x] /\ next.publicUrl[x] = r.publicUrl[x]
        /\ x = t => ~Active(next.exposure[x]) /\ ~Active(next.publicUrl[x])
  <2>1. /\ r.exposure[t] \in Exposure \cup {None}
        /\ r.publicUrl[t] \in PublicUrl \cup {None}
    BY DEF Registry
  <2>2. ~Active(Revoke(r.exposure[t])) /\ ~Active(Revoke(r.publicUrl[t]))
    BY <2>1, RevokeInactive DEF Active
  <2> QED  BY <1>2, <2>2 DEF Registry
<1>5. \A d \in Domains :
        \/ next.domain[d] = r.domain[d] /\ (r.domain[d] # None => r.domain[d].tool # t)
        \/ /\ r.domain[d] # None
           /\ next.domain[d].tool = r.domain[d].tool
           /\ next.domain[d].status # "verified"
  <2> SUFFICES ASSUME NEW d \in Domains
               PROVE  \/ /\ next.domain[d] = r.domain[d]
                         /\ r.domain[d] # None => r.domain[d].tool # t
                      \/ /\ r.domain[d] # None
                         /\ next.domain[d].tool = r.domain[d].tool
                         /\ next.domain[d].status # "verified"
    OBVIOUS
  <2>1. r.domain[d] # None => r.domain[d] \in Binding
    BY DEF Registry
  <2> QED  BY <1>2, <2>1, RevokeInactive
<1>6. Backed(next)
  <2> SUFFICES ASSUME NEW x \in Tools, Active(next.publicUrl[x])
               PROVE  \E s2 \in Subjects :
                        /\ Active(next.address[x, "website", s2])
                        /\ next.address[x, "website", s2].host = next.publicUrl[x].host
    BY DEF Backed
  <2>1. x # t /\ next.publicUrl[x] = r.publicUrl[x]
    BY <1>4
  <2>2. \A s2 \in Subjects : next.address[x, "website", s2] = r.address[x, "website", s2]
    BY <1>3, <2>1, ExposureAssumption DEF ExposureAssumption
  <2>3. \E s2 \in Subjects :
          /\ Active(r.address[x, "website", s2])
          /\ r.address[x, "website", s2].host = r.publicUrl[x].host
    BY <2>1 DEF Sound, Backed
  <2> QED  BY <2>1, <2>2, <2>3
<1>7. Admitted(next, dec)
  <2>1. \A t2 \in Tools, k2 \in Kinds, s2 \in Subjects :
          Active(next.address[t2, k2, s2]) => dec[t2, k2] # None
    BY <1>3 DEF Sound, Admitted
  <2>2. \A d \in Domains : next.domain[d] # None => dec[next.domain[d].tool, d] # None
    BY <1>5 DEF Sound, Admitted
  <2> QED  BY <2>1, <2>2 DEF Admitted
<1>8. Darkened(next, tools \cup {t})
  <2> SUFFICES ASSUME NEW x \in tools \cup {t}  PROVE Unreachable(next, x)
    BY DEF Darkened
  <2>1. CASE x = t
    BY <1>3, <1>4, <1>5, <2>1 DEF Unreachable
  <2>2. CASE x # t
    <3>1. Unreachable(r, x) /\ x \in Tools
      BY <2>2 DEF Sound, Darkened
    <3> QED  BY <1>3, <1>4, <1>5, <2>2, <3>1 DEF Unreachable
  <2> QED  BY <2>1, <2>2
<1> QED  BY <1>1, <1>6, <1>7, <1>8 DEF Sound, next

(* A binding whose decision is recorded, of a tool not in the dark, or one *)
(* that is not verified.                                                   *)
LEMMA SetDomainSound ==
    ASSUME NEW r \in Registry, NEW dec, NEW tools \in SUBSET Tools,
           Sound(r, dec, tools),
           NEW d \in Domains, NEW binding \in Binding, dec[binding.tool, d] # None,
           binding.tool \in tools => binding.status # "verified"
    PROVE  Sound([r EXCEPT !.domain[d] = binding], dec, tools)
<1> DEFINE next == [r EXCEPT !.domain[d] = binding]
<1>1. next \in Registry
  BY DEF Registry
<1>2. /\ next.address = r.address /\ next.publicUrl = r.publicUrl
      /\ next.exposure = r.exposure
      /\ next.domain = [r.domain EXCEPT ![d] = binding]
  BY DEF Registry
<1> HIDE DEF next
<1>3. next.domain[d] = binding /\ \A e \in Domains : e # d => next.domain[e] = r.domain[e]
  BY <1>2 DEF Registry
<1>4. Backed(next)
  BY <1>2 DEF Sound, Backed
<1>5. Admitted(next, dec)
  BY <1>2, <1>3 DEF Sound, Admitted
<1>6. Darkened(next, tools)
  <2> SUFFICES ASSUME NEW x \in tools  PROVE Unreachable(next, x)
    BY DEF Darkened
  <2>1. Unreachable(r, x)
    BY DEF Sound, Darkened
  <2> QED  BY <1>2, <1>3, <2>1 DEF Unreachable
<1> QED  BY <1>1, <1>4, <1>5, <1>6 DEF Sound, next

-----------------------------------------------------------------------------
(* Steps.                                                                  *)

(* A commit changes memory, and may fail to change the file.               *)
LEMMA CommitEffect ==
    ASSUME NEW next, Commit(next)
    PROVE  mem' = next /\ disk' \in {disk, next}
BY DEF Commit, Saved, Unsaved

(* Recording a verdict takes no decision back.                             *)
LEMMA DecideEffect ==
    ASSUME decisions \in Decisions, NEW t \in Tools, NEW m \in Matter,
           NEW v \in Decision, Decide(t, m, v)
    PROVE  /\ decisions' \in Decisions
           /\ Stay(decisions, decisions')
           /\ decisions'[t, m] # None
<1>1. v # None
  BY ExposureAssumption DEF ExposureAssumption
<1>2. decisions' \in Decisions /\ decisions'[t, m] = v
  BY DEF Decide, Decisions
<1>3. Stay(decisions, decisions')
  BY <1>1 DEF Decide, Decisions, Stay
<1> QED  BY <1>1, <1>2, <1>3

(* A step that leaves sound registries, old or new, keeps the invariant.   *)
LEMMA KeepsInvariant ==
    ASSUME IInv, NEW next, Sound(next, decisions', dark'),
           decisions' \in Decisions, Stay(decisions, decisions'),
           dark' \subseteq dark, GatesTyped', requests' \in Nat,
           mem' \in {mem, next}, disk' \in {disk, next}
    PROVE  IInv'
<1>1. dark \in SUBSET Tools /\ dark' \in SUBSET dark
  BY DEF IInv, TypeOK, GatesTyped
<1>2. Sound(mem, decisions', dark') /\ Sound(disk, decisions', dark')
  BY <1>1, SoundMonotone DEF IInv
<1>3. Sound(mem', decisions', dark') /\ Sound(disk', decisions', dark')
  BY <1>2
<1>4. mem' \in Registry /\ disk' \in Registry
  BY <1>3 DEF Sound
<1> QED  BY <1>1, <1>3, <1>4 DEF IInv, TypeOK, GatesTyped, Decisions

(* Steps that record no decision and clear no darkness.                    *)
LEMMA PlainStep ==
    ASSUME IInv, NEW next, Sound(next, decisions, dark),
           UNCHANGED <<decisions, dark>>, GatesTyped', requests' \in Nat,
           mem' \in {mem, next}, disk' \in {disk, next}
    PROVE  IInv'
<1>1. decisions' \in Decisions /\ Stay(decisions, decisions')
  BY DEF IInv, TypeOK, GatesTyped, Decisions, Stay
<1> QED  BY <1>1, KeepsInvariant

(* Counting a request keeps the counter a number.                          *)
LEMMA RequestCounts ==
    ASSUME IInv, Request
    PROVE  requests' \in Nat
BY DEF IInv, TypeOK, GatesTyped, Request

(* An admission: the verdict is recorded, and the tool leaves the dark.    *)
LEMMA AdmitStep ==
    ASSUME IInv, NEW t \in Tools, NEW m \in Matter, NEW v \in Verdict, NEW next,
           Admit(t, m, v, next), dark' = dark \ {t}, UNCHANGED gates, Request,
           \A dec : (Sound(mem, dec, dark \ {t}) /\ dec[t, m] # None)
                     => Sound(next, dec, dark \ {t})
    PROVE  IInv'
<1>1. v \in Decision
  BY DEF Verdict, Decision, Blocked
<1>2. /\ decisions' \in Decisions /\ Stay(decisions, decisions')
      /\ decisions'[t, m] # None
  BY <1>1, DecideEffect DEF Admit, IInv, TypeOK, GatesTyped, Decisions
<1>3. Sound(mem, decisions', dark \ {t})
  BY <1>2, SoundMonotone DEF IInv, TypeOK, GatesTyped
<1>4. Sound(next, decisions', dark')
  BY <1>2, <1>3
<1>5. mem' \in {mem, next} /\ disk' \in {disk, next}
  BY CommitEffect DEF Admit, registries
<1>6. GatesTyped' /\ requests' \in Nat /\ dark' \subseteq dark
  <2>1. GatesTyped'
    BY DEF IInv, TypeOK, GatesTyped, gates
  <2>2. requests' \in Nat
    BY RequestCounts
  <2> QED  BY <2>1, <2>2
<1> QED  BY <1>2, <1>4, <1>5, <1>6, KeepsInvariant

(* A first start: nothing is recorded, so nothing is unsound.              *)
LEMMA InitSound == Init => IInv
<1> SUFFICES ASSUME Init PROVE IInv
  OBVIOUS
<1>1. EmptyRegistry \in Registry
  BY DEF EmptyRegistry, Registry
<1>2. Backed(EmptyRegistry)
  BY DEF EmptyRegistry, Backed, Active
<1>3. Admitted(EmptyRegistry, decisions)
  BY DEF EmptyRegistry, Admitted, Active, AddressKey
<1>4. Darkened(EmptyRegistry, dark)
  BY DEF Darkened, Init
<1> QED  BY <1>1, <1>2, <1>3, <1>4 DEF IInv, TypeOK, GatesTyped, Init, Sound

(* requestSystemsApiAddress keeps the invariant.                           *)
LEMMA RequestAddressStep ==
    ASSUME IInv, NEW t \in Tools, NEW k \in Kinds, NEW s \in Subjects,
           NEW h \in Hosts \cup {None}, RequestAddress(t, k, s, h)
    PROVE  IInv'
<1>1. mem \in Registry /\ mem.tool[t] \in Tool \cup {None}
  BY DEF IInv, TypeOK, GatesTyped, Registry
<1>2. PICK v \in Verdicts(mem.tool[t], h) :
        Admit(t, k, v, WithAddress(mem, t, k, s, HostOf(k, s, h), v))
  BY DEF RequestAddress
<1>3. v \in Verdict
  BY <1>1, VerdictType
<1>4. HostOf(k, s, h) \in Host
  BY DEF HostOf, Host
<1>5. ASSUME NEW dec, Sound(mem, dec, dark \ {t}), dec[t, k] # None
      PROVE  Sound(WithAddress(mem, t, k, s, HostOf(k, s, h), v), dec, dark \ {t})
  BY <1>1, <1>3, <1>4, <1>5, WithAddressSound DEF IInv, TypeOK, GatesTyped
<1>6. k \in Matter
  BY DEF Matter
<1> QED  BY <1>2, <1>3, <1>5, <1>6, AdmitStep DEF RequestAddress

(* A public URL is asked for as a website address.                         *)
LEMMA PublicUrlIsAddress ==
    ASSUME NEW t \in Tools, NEW h \in Hosts \cup {None}, RequestPublicUrl(t, h)
    PROVE  \E k \in Kinds, s \in Subjects : RequestAddress(t, k, s, h)
<1>1. t \in Subjects /\ "website" \in Kinds
  BY ExposureAssumption DEF ExposureAssumption
<1> QED  BY <1>1 DEF RequestPublicUrl

(* requestExposure keeps the invariant.                                    *)
LEMMA RequestExposureStep ==
    ASSUME IInv, NEW t \in Tools, NEW h \in Hosts \cup {None}, RequestExposure(t, h)
    PROVE  IInv'
<1> DEFINE exposure(v) == [status |-> Granted(v, v), host |-> IF h = None THEN t ELSE h]
<1>1. mem \in Registry /\ mem.tool[t] \in Tool \cup {None}
  BY DEF IInv, TypeOK, GatesTyped, Registry
<1>2. PICK v \in Verdicts(mem.tool[t], h) :
        Admit(t, "exposure", v, [mem EXCEPT !.exposure[t] = exposure(v)])
  BY DEF RequestExposure
<1>3. v \in Verdict
  BY <1>1, VerdictType
<1>4. exposure(v) \in Exposure
  BY <1>3, ExposureAssumption DEF Exposure, Granted, Verdict, Host, ExposureAssumption
<1>5. ASSUME NEW dec, Sound(mem, dec, dark \ {t})
      PROVE  Sound([mem EXCEPT !.exposure[t] = exposure(v)], dec, dark \ {t})
  BY <1>1, <1>4, <1>5, SetExposureSound DEF IInv, TypeOK, GatesTyped
<1>6. "exposure" \in Matter
  BY DEF Matter
<1> QED  BY <1>2, <1>3, <1>5, <1>6, AdmitStep DEF RequestExposure

(* revokeSystemsApiAddress keeps the invariant.                            *)
LEMMA RevokeAddressStep ==
    ASSUME IInv, NEW t \in Tools, NEW kinds \in SUBSET Kinds, RevokeAddress(t, kinds)
    PROVE  IInv'
<1> DEFINE next == WithoutAddresses(mem, t, kinds)
<1>1. Sound(next, decisions, dark)
  BY WithoutAddressesSound DEF IInv, TypeOK, GatesTyped
<1>2. mem' = next /\ disk' \in {disk, next}
  BY CommitEffect DEF RevokeAddress
<1> HIDE DEF next
<1>3. /\ UNCHANGED <<decisions, dark>>
      /\ GatesTyped' /\ requests' \in Nat
  BY DEF RevokeAddress, Request, ghosts, gates, IInv, TypeOK, GatesTyped
<1> QED  BY <1>1, <1>2, <1>3, PlainStep

(* The only step into the dark: both registries are the withdrawn one.     *)
LEMMA RevokeExposureStep ==
    ASSUME IInv, NEW t \in Tools, RevokeExposure(t)
    PROVE  IInv'
<1> DEFINE next == Withdrawn(mem, t)
<1>1. Sound(next, decisions, dark \cup {t})
  BY WithdrawnSound DEF IInv, TypeOK, GatesTyped
<1>2. dark \in SUBSET (dark \cup {t}) /\ dark \cup {t} \in SUBSET Tools
  BY DEF IInv, TypeOK, GatesTyped
<1>3. Stay(decisions, decisions)
  BY DEF Stay
<1>4. Sound(next, decisions, dark)
  BY <1>1, <1>2, <1>3, SoundMonotone
<1> HIDE DEF next
<1>5. /\ UNCHANGED <<decisions, gates>>
      /\ GatesTyped' /\ requests' \in Nat
  BY DEF RevokeExposure, Request, IInv, TypeOK, GatesTyped, gates
<1>6. CASE Saved(next) /\ dark' = dark \cup {t}
  <2>1. mem' = next /\ disk' = next /\ next \in Registry
    BY <1>1, <1>6 DEF Saved, Sound
  <2>2. TypeOK'
    BY <1>2, <1>5, <1>6, <2>1 DEF IInv, TypeOK, GatesTyped
  <2> QED  BY <1>1, <1>5, <1>6, <2>1, <2>2 DEF IInv
<1>7. CASE Unsaved(next) /\ UNCHANGED dark
  <2>1. mem' = next /\ disk' \in {disk, next}
    BY <1>7 DEF Unsaved
  <2> QED  BY <1>4, <1>5, <1>7, <2>1, PlainStep
<1> QED  BY <1>6, <1>7 DEF RevokeExposure, next

(* requestDomainBinding keeps the invariant.                               *)
LEMMA RequestDomainStep ==
    ASSUME IInv, NEW t \in Tools, NEW d \in Domains, RequestDomain(t, d)
    PROVE  IInv'
<1> DEFINE binding(v) == [status |-> StatusOfBinding(mem, d, v), tool |-> t]
<1>1. mem \in Registry /\ mem.tool[t] \in Tool \cup {None}
  BY DEF IInv, TypeOK, GatesTyped, Registry
<1>2. PICK v \in Verdicts(mem.tool[t], d) :
        Admit(t, d, v, [mem EXCEPT !.domain[d] = binding(v)])
  BY DEF RequestDomain
<1>3. v \in Verdict
  BY <1>1, VerdictType
<1>4. binding(v) \in Binding
  <2>1. mem.domain[d] \in Binding \cup {None}
    BY <1>1 DEF Registry
  <2> QED  BY <1>3, <2>1 DEF Binding, StatusOfBinding, Verdict
<1>5. ASSUME NEW dec, Sound(mem, dec, dark \ {t}), dec[t, d] # None
      PROVE  Sound([mem EXCEPT !.domain[d] = binding(v)], dec, dark \ {t})
  <2>1. dark \ {t} \in SUBSET Tools /\ binding(v).tool = t
    BY DEF IInv, TypeOK, GatesTyped
  <2> HIDE DEF binding
  <2> QED  BY <1>1, <1>4, <1>5, <2>1, SetDomainSound
<1>6. d \in Matter
  BY DEF Matter
<1> HIDE DEF binding
<1>7. dark' = dark \ {t} /\ UNCHANGED gates /\ Request
  BY DEF RequestDomain
<1> QED  BY <1>2, <1>3, <1>5, <1>6, <1>7, AdmitStep

(* Verifying or revoking a binding changes its status and nothing else.    *)
LEMMA DomainRecordKept ==
    ASSUME NEW r \in Registry, NEW d \in Domains, r.domain[d] # None,
           NEW status \in {"verified", "revoked"}
    PROVE  /\ [r.domain[d] EXCEPT !.status = status] \in Binding
           /\ [r.domain[d] EXCEPT !.status = status].status = status
           /\ [r.domain[d] EXCEPT !.status = status].tool = r.domain[d].tool
           /\ [r EXCEPT !.domain[d].status = status]
                = [r EXCEPT !.domain[d] = [r.domain[d] EXCEPT !.status = status]]
<1>1. r.domain[d] \in Binding
  BY DEF Registry
<1> QED  BY <1>1 DEF Binding

(* verifyDomainBinding keeps the invariant.                                *)
LEMMA VerifyDomainStep ==
    ASSUME IInv, NEW d \in Domains, VerifyDomain(d)
    PROVE  IInv'
<1> DEFINE binding == [mem.domain[d] EXCEPT !.status = "verified"]
<1> DEFINE next == [mem EXCEPT !.domain[d] = binding]
<1>1. mem \in Registry /\ mem.domain[d] # None /\ Request
  BY DEF VerifyDomain, IInv, TypeOK, GatesTyped
<1>2. /\ binding \in Binding /\ binding.tool = mem.domain[d].tool
      /\ [mem EXCEPT !.domain[d].status = "verified"] = next
  BY <1>1, DomainRecordKept
<1>3. decisions[binding.tool, d] # None
  BY <1>1, <1>2 DEF IInv, Sound, Admitted
<1>4. dark' = dark \ {binding.tool} /\ UNCHANGED <<decisions, gates>>
  BY <1>2 DEF VerifyDomain
<1>5. mem' = next /\ disk' \in {disk, next}
  BY <1>2, CommitEffect DEF VerifyDomain
<1> HIDE DEF binding
<1>6. Stay(decisions, decisions) /\ dark' \in SUBSET dark /\ dark \in SUBSET Tools
  BY <1>4 DEF Stay, IInv, TypeOK, GatesTyped
<1>7. Sound(mem, decisions, dark')
  BY <1>6, SoundMonotone DEF IInv
<1>8. Sound(next, decisions, dark')
  BY <1>1, <1>2, <1>3, <1>4, <1>6, <1>7, SetDomainSound
<1> HIDE DEF next
<1>9. GatesTyped' /\ requests' \in Nat /\ decisions' \in Decisions
  BY <1>1, <1>4 DEF Request, IInv, TypeOK, GatesTyped, gates, Decisions
<1> QED  BY <1>4, <1>5, <1>6, <1>8, <1>9, KeepsInvariant

(* revokeDomainBinding keeps the invariant.                                *)
LEMMA RevokeDomainStep ==
    ASSUME IInv, NEW d \in Domains, RevokeDomain(d)
    PROVE  IInv'
<1> DEFINE binding == [mem.domain[d] EXCEPT !.status = "revoked"]
<1> DEFINE next == [mem EXCEPT !.domain[d] = binding]
<1>1. mem \in Registry /\ mem.domain[d] # None /\ Request
  BY DEF RevokeDomain, IInv, TypeOK, GatesTyped
<1>2. /\ binding \in Binding /\ binding.tool = mem.domain[d].tool
      /\ binding.status = "revoked"
      /\ [mem EXCEPT !.domain[d].status = "revoked"] = next
  BY <1>1, DomainRecordKept
<1>3. decisions[binding.tool, d] # None
  BY <1>1, <1>2 DEF IInv, Sound, Admitted
<1>4. UNCHANGED <<decisions, dark, gates>>
  BY DEF RevokeDomain, ghosts, gates
<1>5. mem' = next /\ disk' \in {disk, next}
  BY <1>2, CommitEffect DEF RevokeDomain
<1> HIDE DEF binding
<1>6. dark \in SUBSET Tools /\ Sound(mem, decisions, dark)
  BY DEF IInv, TypeOK, GatesTyped
<1>7. Sound(next, decisions, dark)
  BY <1>1, <1>2, <1>3, <1>6, SetDomainSound
<1> HIDE DEF next
<1>8. GatesTyped' /\ requests' \in Nat
  BY <1>1, <1>4 DEF Request, IInv, TypeOK, GatesTyped, gates
<1> QED  BY <1>4, <1>5, <1>7, <1>8, PlainStep

(* Steps about one tool's own record.                                      *)
LEMMA ToolStep ==
    ASSUME IInv, NEW t \in Tools, NEW tool \in Tool \cup {None},
           mem' = SetTool(t, tool), disk' \in {disk, SetTool(t, tool)},
           UNCHANGED <<decisions, dark>>, GatesTyped', requests' \in Nat
    PROVE  IInv'
<1>1. Sound(SetTool(t, tool), decisions, dark)
  BY SetToolSound DEF SetTool, IInv, TypeOK, GatesTyped
<1> QED  BY <1>1, PlainStep

(* What tools say of themselves is well formed.                            *)
LEMMA ReportsTyped == Reports \subseteq Report
BY ExposureAssumption DEF ExposureAssumption

(* registerSystemsApiTool keeps the invariant.                             *)
LEMMA RegisterStep ==
    ASSUME IInv, NEW t \in Tools, NEW report \in Reports, Register(t, report)
    PROVE  IInv'
<1>1. Rebuilt(mem.tool[t], report) \in Tool
  BY RebuiltType, ReportsTyped DEF IInv, TypeOK, GatesTyped, Registry
<1>2. /\ mem' = SetTool(t, Rebuilt(mem.tool[t], report))
      /\ disk' \in {disk, SetTool(t, Rebuilt(mem.tool[t], report))}
  BY CommitEffect DEF Register
<1>3. UNCHANGED <<decisions, dark>> /\ GatesTyped' /\ requests' \in Nat
  BY RequestCounts DEF Register, ghosts, gates, IInv, TypeOK, GatesTyped
<1> QED  BY <1>1, <1>2, <1>3, ToolStep

(* updateTool keeps the invariant.                                         *)
LEMMA PatchStep ==
    ASSUME IInv, NEW t \in Tools, NEW report \in Reports,
           NEW gate \in BOOLEAN \cup {None}, Patch(t, report, gate)
    PROVE  IInv'
<1> DEFINE tool == [Reported(mem.tool[t], report) EXCEPT !.gated = Given(gate, @)]
<1>1. tool \in Tool
  <2>1. mem.tool[t] \in Tool
    BY DEF Patch, IInv, TypeOK, GatesTyped, Registry
  <2>2. Reported(mem.tool[t], report) \in Tool
    BY <2>1, ReportedType, ReportsTyped
  <2> QED  BY <2>2 DEF Tool, Given
<1>2. /\ mem' = SetTool(t, tool)
      /\ disk' \in {disk, SetTool(t, tool)}
  BY DEF Patch, Saved, Unsaved
<1>3. UNCHANGED <<decisions, dark>> /\ requests' \in Nat
  BY RequestCounts DEF Patch
<1>4. GatesTyped'
  <2>1. gateSet' \in {gateSet, gateSet \cup {t}, gateSet \ {t}}
    BY DEF Patch
  <2>2. dropped' \in {dropped, dropped \ {t}}
    BY DEF Patch
  <2> QED  BY <2>1, <2>2 DEF IInv, TypeOK, GatesTyped
<1> HIDE DEF tool
<1> QED  BY <1>1, <1>2, <1>3, <1>4, ToolStep

(* deregisterTool keeps the invariant.                                     *)
LEMMA DeregisterStep ==
    ASSUME IInv, NEW t \in Tools, Deregister(t)
    PROVE  IInv'
<1>1. mem' = SetTool(t, None) /\ disk' \in {disk, SetTool(t, None)}
  BY CommitEffect DEF Deregister
<1>2. UNCHANGED <<decisions, dark>> /\ GatesTyped' /\ requests' \in Nat
  BY RequestCounts DEF Deregister, IInv, TypeOK, GatesTyped
<1> QED  BY <1>1, <1>2, ToolStep

(* recordToolHeartbeat keeps the invariant.                                *)
LEMMA HeartbeatStep ==
    ASSUME IInv, NEW t \in Tools, NEW report \in Reports, Heartbeat(t, report)
    PROVE  IInv'
<1> DEFINE tool == [mem.tool[t] EXCEPT
                      !.upstream = Given(report.upstream, @),
                      !.health = Given(report.health, IF @ = "offline" THEN "healthy" ELSE @),
                      !.lapsed = FALSE]
<1>1. tool \in Tool
  <2>1. mem.tool[t] \in Tool
    BY DEF Heartbeat, IInv, TypeOK, GatesTyped, Registry
  <2>2. report \in Report
    BY ReportsTyped
  <2> QED  BY <2>1, <2>2 DEF Tool, Report, Given
<1>2. mem' = SetTool(t, tool) /\ disk' = disk
  BY DEF Heartbeat
<1>3. UNCHANGED <<decisions, dark>> /\ GatesTyped' /\ requests' \in Nat
  BY DEF Heartbeat, ghosts, gates, IInv, TypeOK, GatesTyped
<1> HIDE DEF tool
<1> QED  BY <1>1, <1>2, <1>3, ToolStep

(* expireToolHeartbeat keeps the invariant.                                *)
LEMMA ExpireStep ==
    ASSUME IInv, NEW t \in Tools, Expire(t)
    PROVE  IInv'
<1> DEFINE tool == [mem.tool[t] EXCEPT !.health = "offline", !.lapsed = TRUE]
<1>1. tool \in Tool
  <2>1. mem.tool[t] \in Tool
    BY DEF Expire, IInv, TypeOK, GatesTyped, Registry
  <2> QED  BY <2>1 DEF Tool
<1>2. mem' = SetTool(t, tool) /\ disk' = disk
  BY DEF Expire
<1>3. UNCHANGED <<decisions, dark>> /\ GatesTyped' /\ requests' \in Nat
  BY DEF Expire, ghosts, gates, IInv, TypeOK, GatesTyped
<1> HIDE DEF tool
<1> QED  BY <1>1, <1>2, <1>3, ToolStep

(* An operator's verdict keeps the invariant.                              *)
LEMMA OperateStep ==
    ASSUME IInv, NEW t \in Tools, NEW m \in Matter, NEW status \in Decision,
           Operate(t, m, status)
    PROVE  IInv'
<1>1. decisions' \in Decisions /\ Stay(decisions, decisions')
  BY DecideEffect DEF Operate, IInv, TypeOK, GatesTyped, Decisions
<1>2. UNCHANGED <<mem, disk, dark, gates>> /\ requests' \in Nat
  BY RequestCounts DEF Operate, registries, ghosts, gates
<1>3. dark \in SUBSET Tools /\ dark \in SUBSET dark /\ GatesTyped'
  BY <1>2 DEF IInv, TypeOK, GatesTyped, gates
<1>4. Sound(mem, decisions', dark')
  BY <1>1, <1>2, <1>3, SoundMonotone DEF IInv
<1> QED  BY <1>1, <1>2, <1>3, <1>4, KeepsInvariant

(* Saving the registry in memory keeps the invariant.                      *)
LEMMA FlushStep ==
    ASSUME IInv, Flush
    PROVE  IInv'
<1>1. UNCHANGED <<decisions, dark>> /\ GatesTyped' /\ requests' \in Nat
  BY DEF Flush, ghosts, gates, IInv, TypeOK, GatesTyped
<1>2. Sound(mem, decisions, dark) /\ mem' = mem /\ disk' = mem
  BY DEF Flush, IInv
<1> QED  BY <1>1, <1>2, PlainStep

(* Loading the registry from the file keeps the invariant.                 *)
LEMMA RestartStep ==
    ASSUME IInv, Restart
    PROVE  IInv'
<1>1. UNCHANGED <<decisions, dark>> /\ GatesTyped' /\ requests' \in Nat
  BY DEF Restart, ghosts, gates, IInv, TypeOK, GatesTyped
<1>2. Sound(Loaded(disk), decisions, dark)
  BY LoadedSound DEF IInv, TypeOK, GatesTyped
<1>3. mem' = Loaded(disk) /\ disk' = disk
  BY DEF Restart
<1> QED  BY <1>1, <1>2, <1>3, PlainStep

(* Every step.                                                             *)
LEMMA NextSound == IInv /\ [Next]_vars => IInv'
<1> SUFFICES ASSUME IInv, [Next]_vars PROVE IInv'
  OBVIOUS
<1>1. CASE UNCHANGED vars
  BY <1>1 DEF IInv, TypeOK, GatesTyped, vars, registries, ghosts, gates
<1>2. ASSUME NEW t \in Tools, ToolRequest(t) PROVE IInv'
  <2>1. \A kinds \in {Kinds} \cup {{k} : k \in Kinds} : kinds \in SUBSET Kinds
    OBVIOUS
  <2> QED
    BY <1>2, <2>1, RequestAddressStep, PublicUrlIsAddress, RequestExposureStep,
       RevokeAddressStep, RevokeExposureStep
    DEF ToolRequest
<1>3. ASSUME NEW t \in Tools, Liveness(t) PROVE IInv'
  BY <1>3, HeartbeatStep, ExpireStep DEF Liveness
<1>6. ASSUME NEW t \in Tools, ToolChange(t) PROVE IInv'
  BY <1>6, RegisterStep, PatchStep, DeregisterStep DEF ToolChange
<1>4. ASSUME NEW d \in Domains, DomainRequest(d) PROVE IInv'
  BY <1>4, RequestDomainStep, VerifyDomainStep, RevokeDomainStep DEF DomainRequest
<1>5. ASSUME NEW t \in Tools, NEW m \in Matter, NEW status \in Decision,
             Operate(t, m, status)
      PROVE  IInv'
  BY <1>5, OperateStep
<1> QED  BY <1>1, <1>2, <1>3, <1>4, <1>5, <1>6, FlushStep, RestartStep DEF Next

(* The inductive invariant holds in every reachable state.                 *)
LEMMA InvariantHolds == Spec => []IInv
BY InitSound, NextSound, PTL DEF Spec

-----------------------------------------------------------------------------
(* Theorems.                                                               *)

(* Memory, file and what a start loads of the file are all sound.          *)
LEMMA ServedSound ==
    ASSUME IInv, NEW r \in Served
    PROVE  Sound(r, decisions, dark)
<1>1. Sound(Loaded(disk), decisions, dark)
  BY LoadedSound DEF IInv, TypeOK, GatesTyped
<1> QED  BY <1>1 DEF Served, IInv

(* Every reachable state has the types of TypeOK: no request of a tool or  *)
(* of the operator, no heartbeat, failed save or restart leaves a record   *)
(* with a status or an owner that the code has no name for.                *)
THEOREM TypeCorrect == Spec => []TypeOK
<1>1. IInv => TypeOK
  BY DEF IInv
<1> QED  BY <1>1, InvariantHolds, PTL

(* An active public URL always has its active website address, in memory,  *)
(* on disk and after a start.                                              *)
THEOREM UrlHasAddress == Spec => []PublicUrlBacked
<1>1. IInv => PublicUrlBacked
  BY ServedSound DEF PublicUrlBacked, Sound
<1> QED  BY <1>1, InvariantHolds, PTL

(* No address and no domain is routed without its own approved decision.   *)
THEOREM RoutesApproved == Spec => []RoutesAreApproved
<1>1. IInv => RoutesAreApproved
  <2> SUFFICES ASSUME IInv, NEW r \in Served,
                      NEW route \in AddressRoutes(r) \cup DomainRoutes(r)
               PROVE  decisions[route.tool, route.matter] = "approved"
    BY DEF RoutesAreApproved
  <2>1. Sound(r, decisions, dark)
    BY ServedSound
  <2>2. \A t \in Tools, m \in Matter :
          (decisions[t, m] # None /\ decisions[t, m] \notin Blocked)
            => decisions[t, m] = "approved"
    BY DEF IInv, TypeOK, GatesTyped, Decision
  <2>3. CASE route \in AddressRoutes(r)
    <3>1. PICK k \in AddressKey :
            /\ Active(r.address[k]) /\ Routable(r, k[1], k[2])
            /\ route = Route(k[1], k[2], r.address[k].host)
      BY <2>3 DEF AddressRoutes
    <3>2. PICK t \in Tools, m \in Kinds, s \in Subjects : k = <<t, m, s>>
      BY DEF AddressKey
    <3>3. decisions[t, m] # None /\ decisions[t, m] \notin Blocked
      BY <2>1, <3>1, <3>2 DEF Sound, Admitted, Routable
    <3>4. route.tool = t /\ route.matter = m /\ m \in Matter
      BY <3>1, <3>2 DEF Route, Matter
    <3> QED  BY <2>2, <3>3, <3>4
  <2>4. CASE route \in DomainRoutes(r)
    <3>1. PICK d \in Domains :
            /\ r.domain[d] # None /\ Routable(r, r.domain[d].tool, d)
            /\ route = Route(r.domain[d].tool, d, d)
      BY <2>4 DEF DomainRoutes, BoundTo
    <3>2. r.domain[d].tool \in Tools
      BY <2>1, <3>1 DEF Sound, Registry, Binding
    <3>3. /\ decisions[r.domain[d].tool, d] # None
          /\ decisions[r.domain[d].tool, d] \notin Blocked
      BY <2>1, <3>1 DEF Sound, Admitted, Routable
    <3>4. route.tool = r.domain[d].tool /\ route.matter = d /\ d \in Matter
      BY <3>1 DEF Route, Matter
    <3> QED  BY <2>2, <3>2, <3>3, <3>4
  <2> QED  BY <2>3, <2>4
<1> QED  BY <1>1, InvariantHolds, PTL

(* A tool whose exposure was revoked, with the revocation confirmed, stays *)
(* off the routing table until something is asked for it.                  *)
THEOREM RevokedStaysDark == Spec => []RevocationIsDark
<1>1. IInv => RevocationIsDark
  <2> SUFFICES ASSUME IInv, NEW r \in Served, NEW route \in Routes(r),
                      route.tool \in dark
               PROVE  FALSE
    BY DEF RevocationIsDark
  <2>1. Unreachable(r, route.tool)
    BY ServedSound DEF Sound, Darkened
  <2>2. CASE route \in AddressRoutes(r)
    <3>1. PICK k \in AddressKey :
            Active(r.address[k]) /\ route = Route(k[1], k[2], r.address[k].host)
      BY <2>2 DEF AddressRoutes
    <3>2. PICK t \in Tools, m \in Kinds, s \in Subjects : k = <<t, m, s>>
      BY DEF AddressKey
    <3>3. route.tool = t
      BY <3>1, <3>2 DEF Route
    <3> QED  BY <2>1, <3>1, <3>2, <3>3 DEF Unreachable
  <2>3. CASE route \in ExposureRoutes(r)
    <3>1. PICK t \in Tools :
            Active(r.exposure[t]) /\ route = Route(t, "exposure", r.exposure[t].host)
      BY <2>3 DEF ExposureRoutes
    <3>2. route.tool = t
      BY <3>1 DEF Route
    <3> QED  BY <2>1, <3>1, <3>2 DEF Unreachable
  <2>4. CASE route \in DomainRoutes(r)
    <3>1. PICK d \in Domains :
            /\ r.domain[d] # None /\ r.domain[d].status = "verified"
            /\ route = Route(r.domain[d].tool, d, d)
      BY <2>4 DEF DomainRoutes, BoundTo
    <3>2. route.tool = r.domain[d].tool
      BY <3>1 DEF Route
    <3> QED  BY <2>1, <3>1, <3>2 DEF Unreachable
  <2> QED  BY <2>2, <2>3, <2>4 DEF Routes
<1> QED  BY <1>1, InvariantHolds, PTL

-----------------------------------------------------------------------------
(* The gate, which nothing but a start may drop.                           *)

Standing == gateSet \ dropped

Gated(r) == \A t \in Standing : HasGate(r, t)

GInv == Gated(mem) /\ Gated(disk)

(* The operators about addresses, exposures and domains leave tools alone. *)
LEMMA ToolsKept ==
    ASSUME NEW r \in Registry, NEW t \in Tools
    PROVE  /\ \A k, s, host, v : WithAddress(r, t, k, s, host, v).tool = r.tool
           /\ \A x : [r EXCEPT !.exposure[t] = x].tool = r.tool
           /\ \A kinds : WithoutAddresses(r, t, kinds).tool = r.tool
           /\ Withdrawn(r, t).tool = r.tool
           /\ \A d, x : [r EXCEPT !.domain[d] = x].tool = r.tool
           /\ \A d, x : [r EXCEPT !.domain[d].status = x].tool = r.tool
BY DEF Registry, WithAddress, WithoutAddresses, Withdrawn

(* Steps that leave the tools alone, or copy them between the registries.  *)
LEMMA GateKeptSame ==
    ASSUME IInv, GInv, Standing' = Standing, mem'.tool = mem.tool,
           disk'.tool \in {disk.tool, mem.tool}
    PROVE  GInv'
BY DEF GInv, Gated, HasGate

(* Steps that set one tool's record.                                       *)
LEMMA GateKeptTool ==
    ASSUME IInv, GInv, NEW t \in Tools, NEW tool \in Tool \cup {None},
           Standing' \subseteq Standing,
           t \in Standing' => tool # None /\ tool.gated,
           mem' = SetTool(t, tool), disk' \in {disk, SetTool(t, tool)}
    PROVE  GInv'
<1>1. SetTool(t, tool).tool = [mem.tool EXCEPT ![t] = tool]
  BY DEF SetTool, IInv, TypeOK, Registry
<1>2. Standing' \subseteq Tools
  BY DEF IInv, TypeOK, Standing
<1>3. \A x \in Tools : SetTool(t, tool).tool[x] = IF x = t THEN tool ELSE mem.tool[x]
  BY <1>1 DEF IInv, TypeOK, Registry
<1> QED  BY <1>2, <1>3 DEF GInv, Gated, HasGate

(* Requests about addresses, exposures and domains: what they may save has *)
(* the tools of the registry in memory.                                    *)
LEMMA GateKeptRequest ==
    ASSUME IInv, GInv, NEW next, next.tool = mem.tool, Standing' = Standing,
           Commit(next) \/ UNCHANGED registries
    PROVE  GInv'
<1>1. mem' \in {mem, next} /\ disk' \in {disk, next}
  BY CommitEffect DEF registries
<1> QED  BY <1>1, GateKeptSame

(* No request about a tool loses a confirmed gate.                         *)
LEMMA GateToolRequest ==
    ASSUME IInv, GInv, NEW t \in Tools, ToolRequest(t)
    PROVE  GInv'
<1>0. mem \in Registry /\ Standing \subseteq Tools
  BY DEF IInv, TypeOK, Standing
<1>1. ASSUME NEW k \in Kinds, NEW s \in Subjects, NEW h \in Hosts \cup {None},
             RequestAddress(t, k, s, h)
      PROVE  GInv'
  <2>1. PICK v : Admit(t, k, v, WithAddress(mem, t, k, s, HostOf(k, s, h), v))
    BY <1>1 DEF RequestAddress
  <2>2. WithAddress(mem, t, k, s, HostOf(k, s, h), v).tool = mem.tool
    BY <1>0, ToolsKept
  <2> QED  BY <1>1, <2>1, <2>2, GateKeptRequest DEF RequestAddress, Admit, gates, Standing
<1>2. ASSUME NEW h \in Hosts \cup {None}, RequestExposure(t, h)
      PROVE  GInv'
  <2> DEFINE exposure(v) == [status |-> Granted(v, v), host |-> IF h = None THEN t ELSE h]
  <2>1. PICK v : Admit(t, "exposure", v, [mem EXCEPT !.exposure[t] = exposure(v)])
    BY <1>2 DEF RequestExposure
  <2>2. [mem EXCEPT !.exposure[t] = exposure(v)].tool = mem.tool
    BY <1>0, ToolsKept
  <2> HIDE DEF exposure
  <2> QED  BY <1>2, <2>1, <2>2, GateKeptRequest DEF RequestExposure, Admit, gates, Standing
<1>3. ASSUME NEW kinds, RevokeAddress(t, kinds)
      PROVE  GInv'
  <2>1. WithoutAddresses(mem, t, kinds).tool = mem.tool
    BY <1>0, ToolsKept
  <2> QED  BY <1>3, <2>1, GateKeptRequest DEF RevokeAddress, ghosts, gates, Standing
<1>4. ASSUME RevokeExposure(t) PROVE GInv'
  <2>1. Withdrawn(mem, t).tool = mem.tool
    BY <1>0, ToolsKept
  <2>2. Commit(Withdrawn(mem, t))
    BY <1>4 DEF RevokeExposure, Commit
  <2> QED  BY <1>4, <2>1, <2>2, GateKeptRequest DEF RevokeExposure, gates, Standing
<1> QED  BY <1>1, <1>2, <1>3, <1>4, PublicUrlIsAddress DEF ToolRequest

(* Registrations keep a confirmed gate; operators change it knowingly.     *)
LEMMA GateToolChange ==
    ASSUME IInv, GInv, NEW t \in Tools, ToolChange(t)
    PROVE  GInv'
<1>0. mem \in Registry /\ Standing \subseteq Tools
  BY DEF IInv, TypeOK, Standing
<1>1. ASSUME NEW report \in Reports, Register(t, report) PROVE GInv'
  <2> DEFINE tool == Rebuilt(mem.tool[t], report)
  <2>1. tool \in Tool
    BY <1>0, RebuiltType, ReportsTyped DEF Registry
  <2>2. tool # None
    BY <2>1, ExposureAssumption DEF ExposureAssumption
  <2>3. t \in Standing => tool.gated
    <3>1. SUFFICES ASSUME t \in Standing PROVE tool.gated
      OBVIOUS
    <3>2. mem.tool[t] \in Tool /\ mem.tool[t].gated
      BY <1>0, <3>1 DEF GInv, Gated, HasGate, Registry
    <3>3. mem.tool[t] # None
      BY <3>2, ExposureAssumption DEF ExposureAssumption
    <3> QED  BY <3>2, <3>3 DEF Rebuilt, Reported, Tool
  <2>4. mem' = SetTool(t, tool) /\ disk' \in {disk, SetTool(t, tool)}
    BY <1>1, CommitEffect DEF Register
  <2>5. Standing' = Standing
    BY <1>1 DEF Register, ghosts, gates, Standing
  <2> HIDE DEF tool
  <2> QED  BY <2>1, <2>2, <2>3, <2>4, <2>5, GateKeptTool
<1>2. ASSUME NEW report \in Reports, NEW gate \in BOOLEAN \cup {None},
             Patch(t, report, gate)
      PROVE  GInv'
  <2> DEFINE tool == [Reported(mem.tool[t], report) EXCEPT !.gated = Given(gate, @)]
  <2>1. mem.tool[t] \in Tool
    BY <1>0, <1>2 DEF Patch, Registry
  <2>2. /\ tool \in Tool
        /\ tool.gated = Given(gate, mem.tool[t].gated)
    <3>1. Reported(mem.tool[t], report) \in Tool
      BY <2>1, ReportedType, ReportsTyped
    <3>2. Reported(mem.tool[t], report).gated = mem.tool[t].gated
      BY <2>1 DEF Reported, Tool
    <3> QED  BY <3>1, <3>2 DEF Tool, Given
  <2>3. tool # None
    BY <2>2, ExposureAssumption DEF ExposureAssumption
  <2>4. None # TRUE /\ None # FALSE
    BY ExposureAssumption DEF ExposureAssumption
  <2>5. \/ mem' = SetTool(t, tool) /\ disk' = SetTool(t, tool) /\ gate = TRUE
           /\ Standing' = Standing \cup {t}
        \/ /\ mem' = SetTool(t, tool) /\ disk' \in {disk, SetTool(t, tool)}
           /\ Standing' \subseteq Standing
           /\ gate = FALSE => t \notin Standing'
    BY <1>2, <2>4 DEF Patch, Saved, Unsaved, Standing
  <2> HIDE DEF tool
  <2>6. CASE /\ mem' = SetTool(t, tool) /\ disk' = SetTool(t, tool)
             /\ gate = TRUE /\ Standing' = Standing \cup {t}
    <3>1. tool.gated
      BY <2>2, <2>4, <2>6 DEF Given
    <3>2. SetTool(t, tool).tool = [mem.tool EXCEPT ![t] = tool]
      BY <1>0 DEF SetTool, Registry
    <3>3. \A x \in Tools : SetTool(t, tool).tool[x] = IF x = t THEN tool ELSE mem.tool[x]
      BY <1>0, <3>2 DEF Registry
    <3> QED  BY <1>0, <2>2, <2>3, <2>6, <3>1, <3>3 DEF GInv, Gated, HasGate
  <2>7. CASE /\ mem' = SetTool(t, tool) /\ disk' \in {disk, SetTool(t, tool)}
             /\ Standing' \subseteq Standing
             /\ gate = FALSE => t \notin Standing'
    <3>1. t \in Standing' => tool.gated
      <4> SUFFICES ASSUME t \in Standing' PROVE tool.gated
        OBVIOUS
      <4>1. gate # FALSE /\ mem.tool[t].gated
        BY <1>0, <2>7 DEF GInv, Gated, HasGate
      <4> QED  BY <2>2, <4>1 DEF Given
    <3> QED  BY <2>2, <2>3, <2>7, <3>1, GateKeptTool
  <2> QED  BY <2>5, <2>6, <2>7
<1>3. ASSUME Deregister(t) PROVE GInv'
  <2>1. mem' = SetTool(t, None) /\ disk' \in {disk, SetTool(t, None)}
    BY <1>3, CommitEffect DEF Deregister
  <2>2. Standing' = Standing \ {t}
    BY <1>3 DEF Deregister, Standing
  <2> QED  BY <2>1, <2>2, GateKeptTool
<1> QED  BY <1>1, <1>2, <1>3 DEF ToolChange

(* Requests about domains leave every gate alone.                          *)
LEMMA GateDomainRequest ==
    ASSUME IInv, GInv, NEW d \in Domains, DomainRequest(d)
    PROVE  GInv'
<1>0. mem \in Registry
  BY DEF IInv, TypeOK
<1>1. ASSUME NEW t \in Tools, RequestDomain(t, d) PROVE GInv'
  <2> DEFINE binding(v) == [status |-> StatusOfBinding(mem, d, v), tool |-> t]
  <2>1. PICK v : Admit(t, d, v, [mem EXCEPT !.domain[d] = binding(v)])
    BY <1>1 DEF RequestDomain
  <2>2. [mem EXCEPT !.domain[d] = binding(v)].tool = mem.tool
    BY <1>0 DEF Registry
  <2> HIDE DEF binding
  <2> QED  BY <1>1, <2>1, <2>2, GateKeptRequest DEF RequestDomain, Admit, gates, Standing
<1>2. ASSUME VerifyDomain(d) PROVE GInv'
  <2>1. [mem EXCEPT !.domain[d].status = "verified"].tool = mem.tool
    BY <1>0 DEF Registry
  <2> QED  BY <1>2, <2>1, GateKeptRequest DEF VerifyDomain, gates, Standing
<1>3. ASSUME RevokeDomain(d) PROVE GInv'
  <2>1. [mem EXCEPT !.domain[d].status = "revoked"].tool = mem.tool
    BY <1>0 DEF Registry
  <2> QED  BY <1>3, <2>1, GateKeptRequest DEF RevokeDomain, ghosts, gates, Standing
<1> QED  BY <1>1, <1>2, <1>3 DEF DomainRequest

(* What is reported of a tool between requests keeps its gate.             *)
LEMMA GateLiveness ==
    ASSUME IInv, GInv, NEW t \in Tools, Liveness(t)
    PROVE  GInv'
<1>0. mem \in Registry /\ Standing \subseteq Tools
  BY DEF IInv, TypeOK, Standing
<1>1. CASE Expire(t)
  <2> DEFINE tool == [mem.tool[t] EXCEPT !.health = "offline", !.lapsed = TRUE]
  <2>1. mem.tool[t] \in Tool
    BY <1>0, <1>1 DEF Expire, Registry
  <2>2. /\ tool \in Tool
        /\ tool.gated = mem.tool[t].gated
    BY <2>1 DEF Tool
  <2>3. mem' = SetTool(t, tool) /\ disk' = disk /\ Standing' = Standing
    BY <1>1 DEF Expire, ghosts, gates, Standing
  <2>4. tool # None
    BY <2>2, ExposureAssumption DEF ExposureAssumption
  <2> HIDE DEF tool
  <2>5. t \in Standing => tool.gated
    BY <2>2 DEF GInv, Gated, HasGate
  <2> QED  BY <2>2, <2>3, <2>4, <2>5, GateKeptTool
<1>2. ASSUME NEW report \in Reports, Heartbeat(t, report) PROVE GInv'
  <2> DEFINE tool == [mem.tool[t] EXCEPT
                        !.upstream = Given(report.upstream, @),
                        !.health = Given(report.health,
                                         IF @ = "offline" THEN "healthy" ELSE @),
                        !.lapsed = FALSE]
  <2>1. mem.tool[t] \in Tool /\ report \in Report
    BY <1>0, <1>2, ReportsTyped DEF Heartbeat, Registry
  <2>2. /\ tool \in Tool
        /\ tool.gated = mem.tool[t].gated
    BY <2>1 DEF Tool, Report, Given
  <2>3. mem' = SetTool(t, tool) /\ disk' = disk /\ Standing' = Standing
    BY <1>2 DEF Heartbeat, ghosts, gates, Standing
  <2>4. tool # None
    BY <2>2, ExposureAssumption DEF ExposureAssumption
  <2> HIDE DEF tool
  <2>5. t \in Standing => tool.gated
    BY <2>2 DEF GInv, Gated, HasGate
  <2> QED  BY <2>2, <2>3, <2>4, <2>5, GateKeptTool
<1> QED  BY <1>1, <1>2 DEF Liveness

(* A confirmed gate is kept by whatever reports and failures, unless a     *)
(* start drops the tool because its description is empty.                  *)
THEOREM GateIsKept == Spec => []GateKept
<1>1. Init => GInv
  BY DEF Init, GInv, Gated, Standing
<1>2. IInv /\ GInv /\ [Next]_vars => GInv'
  <2> SUFFICES ASSUME IInv, GInv, [Next]_vars PROVE GInv'
    OBVIOUS
  <2>1. CASE UNCHANGED vars
    BY <2>1, GateKeptSame DEF vars, registries, ghosts, gates, Standing
  <2>2. ASSUME NEW t \in Tools, NEW m, NEW status, Operate(t, m, status) PROVE GInv'
    BY <2>2, GateKeptSame DEF Operate, registries, ghosts, gates, Standing
  <2>3. CASE Flush
    BY <2>3, GateKeptSame DEF Flush, ghosts, gates, Standing
  <2>4. CASE Restart
    <3>1. Standing \subseteq Tools /\ Standing' \subseteq Standing
      BY <2>4 DEF Restart, IInv, TypeOK, Standing
    <3>2. \A t \in Standing' : disk.tool[t] # None => disk.tool[t].described
      BY <2>4 DEF Restart, Standing
    <3>3. \A t \in Standing' : Loaded(disk).tool[t] = disk.tool[t]
      BY <3>1, <3>2, LoadedIsStored DEF IInv, TypeOK, GInv, Gated, HasGate
    <3> QED  BY <2>4, <3>1, <3>3 DEF Restart, GInv, Gated, HasGate
  <2> QED
    BY <2>1, <2>2, <2>3, <2>4, GateToolRequest, GateToolChange, GateDomainRequest,
       GateLiveness DEF Next
<1>3. IInv /\ GInv => GateKept
  <2> SUFFICES ASSUME IInv, GInv, NEW t \in gateSet \ dropped
               PROVE  /\ HasGate(mem, t) /\ HasGate(disk, t)
                      /\ disk.tool[t].described => HasGate(Loaded(disk), t)
    BY DEF GateKept
  <2>1. t \in Tools /\ HasGate(mem, t) /\ HasGate(disk, t)
    BY DEF IInv, TypeOK, GInv, Gated, Standing
  <2>2. disk.tool[t].described => Loaded(disk).tool[t] = disk.tool[t]
    BY <2>1, LoadedIsStored DEF IInv, TypeOK, HasGate
  <2> QED  BY <2>1, <2>2 DEF HasGate
<1> QED  BY <1>1, <1>2, <1>3, InvariantHolds, PTL DEF Spec
=============================================================================
