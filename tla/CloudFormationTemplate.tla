------------------------ MODULE CloudFormationTemplate ------------------------
(***************************************************************************)
(* The conversion of a CloudFormation template to a ROS template:          *)
(* CloudFormationTemplate in rostran/providers/cloudformation/template.py, *)
(* with the handlers of whole resources in rostran/handlers/resource.py.   *)
(* The result is written by ResourceOrder.                                 *)
(*                                                                         *)
(* Most rules rename a type and its properties.  Two have a handler, which *)
(* is called when all resources are converted: that of AWS::EC2::NatGateway*)
(* adds an EIPAssociation, and that of AWS::EC2::VPCGatewayAttachment, a   *)
(* type without a counterpart, moves its VpcId to the gateway it names.    *)
(* The order of the resources in the source is abstracted: where the code  *)
(* follows it, the model follows any.                                      *)
(***************************************************************************)
EXTENDS ResourceOrder

CONSTANTS
  CfTemplates,   \* the Resources sections that may be converted
  AssociationId  \* f"{resource_id}EIPAssociation" of each name

\* What the rules say of a resource's type.
CfKinds == {"unsupported", "plain", "nat", "internet", "vpn", "attachment"}

\* The target types that the handlers tell apart.
TargetTypes == {"other", "NatGateway", "VpnGateway", "EIPAssociation"}

TargetType == [plain |-> "other", nat |-> "NatGateway", internet |-> "NatGateway",
               vpn |-> "VpnGateway"]

\* An attachment names its gateway in VpnGatewayId ("vpn") or else in
\* InternetGatewayId ("internet"); the type the gateway must have for each.
Slots == {"vpn", "internet", "none"}

SlotType == [vpn |-> "VpnGateway", internet |-> "NatGateway"]

\* refs: the references of the properties that the rule keeps, functions being
\* converted in place; breaks: a rule iterates over a value that is a function.
\* given: whether there is an AllocationId (of a "nat") or a VpcId (of an
\* "attachment"), and value: the references in it.
\* gateway: what an attachment's slot refers to, nothing if it does not refer.
CfResource ==
  [kind : CfKinds, dependsOn : SUBSET Ids, refs : SUBSET Reference, breaks : BOOLEAN,
   given : BOOLEAN, value : SUBSET Reference, slot : Slots, gateway : SUBSET Ids]

ASSUME CfAssumption ==
  /\ \A t \in CfTemplates : DOMAIN t \subseteq Ids /\ t \in [DOMAIN t -> CfResource]
  /\ AssociationId \in [Ids -> Ids]
  /\ \A m, n \in Ids : AssociationId[m] = AssociationId[n] => m = n

VARIABLES
  cf,        \* "load", "convert", "handle", "saved" or "failed"
  source,    \* the Resources section of the source
  pending,   \* its resources not converted yet
  toHandle,  \* resources_to_handle
  made       \* out_resources; vpc: the attachment whose VpcId the resource has

cfVars == <<cf, source, pending, toHandle, made>>

CfInit ==
  /\ IdleInit
  /\ cf = "load"
  /\ source = <<>>
  /\ pending = {}
  /\ toHandle = {}
  /\ made = <<>>

----------------------------------------------------------------------------
Read(t) ==
  /\ cf = "load"
  /\ cf' = IF t = <<>> THEN "handle" ELSE "convert"
  /\ source' = t
  /\ pending' = DOMAIN t
  /\ UNCHANGED <<toHandle, made>>

\* The source is not a template, has an unknown tag or a Transform section.
RefuseSource ==
  /\ cf = "load"
  /\ cf' = "failed"
  /\ UNCHANGED <<source, pending, toHandle, made>>

\* out_resources.add, which replaces a resource of the same name.
Add(id, resource) ==
  made' = [i \in DOMAIN made \cup {id} |-> IF i = id THEN resource ELSE made[i]]

\* The resource of the rule's target type.
Converted(r) ==
  [type |-> TargetType[r.kind],
   dependsOn |-> r.dependsOn,
   refs |-> IF r.kind = "nat" /\ r.given THEN r.refs \cup r.value ELSE r.refs,
   vpc |-> {}]

\* Slip: the handler is remembered in the branch without a target type only.
HandlerWithoutTarget(r) == r.kind = "attachment"

\* resource_rule.handler: whether the rule of r has one.
HasHandler(r) == r.kind \in {"nat", "attachment"}

\* One turn of the loop of _transform_resources.
ConvertResource(n) ==
  /\ cf = "convert"
  /\ n \in pending
  /\ pending' = pending \ {n}
  /\ cf' = IF source[n].kind \in DOMAIN TargetType /\ source[n].breaks THEN "failed"
           ELSE IF pending' = {} THEN "handle" ELSE "convert"
  /\ IF source[n].kind \in DOMAIN TargetType /\ ~source[n].breaks
       THEN Add(n, Converted(source[n]))
       ELSE UNCHANGED made
  /\ toHandle' = toHandle \cup (IF HasHandler(source[n]) THEN {n} ELSE {})
  /\ UNCHANGED source

\* InstanceId of the association is the name itself, not a reference to it.
Association(r) ==
  [type |-> "EIPAssociation", dependsOn |-> {}, refs |-> r.value, vpc |-> {}]

SplitNatGateway(n) ==
  /\ cf = "handle"
  /\ n \in toHandle
  /\ source[n].kind = "nat"
  /\ toHandle' = toHandle \ {n}
  /\ IF source[n].given THEN Add(AssociationId[n], Association(source[n]))
                        ELSE UNCHANGED made
  /\ UNCHANGED <<cf, source, pending>>

\* Slip: the type of what an attachment names is not looked at.
AttachesAny(r, g) == r.kind = "attachment" /\ r.slot # "none" /\ g \in r.gateway

\* Whether the attachment r is one of a gateway g that has been converted.
Attaches(r, g) ==
  /\ r.kind = "attachment"
  /\ r.slot # "none"
  /\ g \in r.gateway
  /\ made[g].type = SlotType[r.slot]

\* The VpcId replaces that of an earlier attachment.
MergeAttachment(n) ==
  /\ cf = "handle"
  /\ n \in toHandle
  /\ source[n].kind = "attachment"
  /\ toHandle' = toHandle \ {n}
  /\ made' = [g \in DOMAIN made |->
       IF Attaches(source[n], g) THEN [made[g] EXCEPT !.vpc = {n}] ELSE made[g]]
  /\ UNCHANGED <<cf, source, pending>>

\* The references of a resource, with those of the VpcId it was given.
AllRefs(r) == r.refs \cup UNION {source[a].value : a \in r.vpc}

\* A missing VpcId has become a property that is None: the section cannot be
\* written.
WriteTemplate ==
  /\ cf = "handle"
  /\ toHandle = {}
  /\ \/ /\ \E g \in DOMAIN made : \E a \in made[g].vpc : ~source[a].given
        /\ cf' = "failed"
        /\ UNCHANGED orderVars
     \/ /\ \A g \in DOMAIN made : \A a \in made[g].vpc : source[a].given
        /\ cf' = "saved"
        /\ Begin([g \in DOMAIN made |->
             [dependsOn |-> made[g].dependsOn, refs |-> AllRefs(made[g])]])
  /\ UNCHANGED <<source, pending, toHandle, made>>

Open ==
  /\ cf = "load"
  /\ (\E t \in CfTemplates : Read(t)) \/ RefuseSource

CfConvert ==
  \/ Open
  \/ \E n \in pending : ConvertResource(n)
  \/ \E n \in toHandle : SplitNatGateway(n)
  \/ \E n \in toHandle : MergeAttachment(n)

CfNext ==
  \/ CfConvert /\ UNCHANGED orderVars
  \/ WriteTemplate
  \/ OrderStep /\ UNCHANGED cfVars

CfSpec == CfInit /\ [][CfNext]_<<orderVars, cfVars>>

----------------------------------------------------------------------------
Made == [type : TargetTypes, dependsOn : SUBSET Ids, refs : SUBSET Reference,
         vpc : SUBSET Ids]

\* The variables hold values of their types.
CfTypeOK ==
  /\ cf \in {"load", "convert", "handle", "saved", "failed"}
  /\ DOMAIN source \subseteq Ids
  /\ source \in [DOMAIN source -> CfResource]
  /\ pending \subseteq DOMAIN source
  /\ toHandle \subseteq DOMAIN source \ pending
  /\ DOMAIN made \subseteq Ids
  /\ made \in [DOMAIN made -> Made]
  /\ \A g \in DOMAIN made : made[g].vpc \subseteq DOMAIN source

\* The resources of the source that have a target type, and the gateways that
\* are split in two.
Convertible == {n \in DOMAIN source : source[n].kind \in DOMAIN TargetType}
Split == {n \in DOMAIN source : source[n].kind = "nat" /\ source[n].given}

\* Nothing is lost or invented: the section written has each resource of the
\* source whose type has a target, as itself unless it has the name of an
\* association, and the association of each NAT gateway with an AllocationId
\* (_transform_resources, split_nat_gateway).
NothingLostOrInvented ==
  cf = "saved" =>
    /\ DOMAIN made = Convertible \cup {AssociationId[n] : n \in Split}
    /\ \A n \in Split : made[AssociationId[n]].type = "EIPAssociation"
    /\ \A n \in Convertible : \/ \E m \in Split : AssociationId[m] = n
                              \/ made[n].type = TargetType[source[n].kind]

\* The attachments that name the gateway g in the property for its type.
Attached(g) ==
  {a \in DOMAIN source :
     /\ source[a].kind = "attachment"
     /\ g \in source[a].gateway
     /\ \/ source[a].slot = "vpn" /\ made[g].type = "VpnGateway"
        \/ source[a].slot = "internet" /\ made[g].type = "NatGateway"}

\* No attachment is forgotten or given to another: a gateway has the VpcId of
\* an attachment that names it, if there is one, whether the attachment comes
\* before the gateway or after it (merge_vpc_gateway_attachment_to_gateway).
AttachmentsMerged ==
  cf = "saved" =>
    \A g \in DOMAIN made :
      made[g].vpc \subseteq Attached(g) /\ (Attached(g) # {} => made[g].vpc # {})
=============================================================================
