------------------------------ MODULE Service -------------------------------
(***************************************************************************)
(* What serves monitoring: the start of the application, the pages and     *)
(* commands that keep hosts, networks and channels, quiet time, and the    *)
(* notifications.  Where one of these parts acts on what another writes,   *)
(* its own module has both: Startup the hosts that are added and removed   *)
(* while it copies them.  A behaviour is of one part, the others at rest.  *)
(***************************************************************************)
EXTENDS Startup, HostAdmin, QuietTime, Subnets, Channels

VARIABLE part

serviceVars == <<part, startupVars, adminVars, quietVars, subnetVars, channelVars>>

ServiceInit ==
    /\ part \in {"startup", "hosts", "quiet time", "subnets", "channels"}
    /\ StartupInit /\ AdminInit /\ QuietInit /\ SubnetsInit /\ ChannelsInit
    /\ part # "startup" => disk.columns = Columns /\ ~disk.macOnly /\ kept = {}

ServiceNext ==
    /\ UNCHANGED part
    /\ \/ /\ part = "startup" /\ StartupNext
          /\ UNCHANGED <<adminVars, quietVars, subnetVars, channelVars>>
       \/ /\ part = "hosts" /\ AdminNext
          /\ UNCHANGED <<startupVars, quietVars, subnetVars, channelVars>>
       \/ /\ part = "quiet time" /\ QuietNext
          /\ UNCHANGED <<startupVars, adminVars, subnetVars, channelVars>>
       \/ /\ part = "subnets" /\ SubnetsNext
          /\ UNCHANGED <<startupVars, adminVars, quietVars, channelVars>>
       \/ /\ part = "channels" /\ ChannelsNext
          /\ UNCHANGED <<startupVars, adminVars, quietVars, subnetVars>>

(* The monitor's loop goes on, and send_event awaits no provider for ever: *)
(* each has a timeout, and what it raises is caught.                       *)
ServiceFairness ==
    /\ WF_adminVars(part = "hosts" /\ ReadHosts)
    /\ WF_adminVars(part = "hosts" /\ CheckHost)
    /\ \A s \in Sends :
          WF_channelVars(part = "channels" /\ (SelectChannels(s) \/ Notify(s) \/ Return(s)))

ServiceSpec == ServiceInit /\ [][ServiceNext]_serviceVars /\ ServiceFairness

ServiceTypeOK ==
    StartupTypeOK /\ HostAdminTypeOK /\ QuietTypeOK /\ SubnetsTypeOK /\ ChannelsTypeOK
=============================================================================
