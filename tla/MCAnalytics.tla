---------------------------- MODULE MCAnalytics ----------------------------
(***************************************************************************)
(* AnalyticsPipeline and Tracking side by side: a behaviour follows one of *)
(* them, and the other stays as it began.                                  *)
(***************************************************************************)
EXTENDS MCAnalyticsPipeline, Tracking

CONSTANTS
  Parts,  \* the modules that a run follows
  Only,   \* the request, and the thread that flushes, that is the only one
  TheOnly

VARIABLE part

(* To be few enough: requests that are not for a view, and one of them and two threads    *)
(* that flush, or two of them, one thread, and a failure less.                            *)
Fits ==
  /\ part # "tracks" => \A t \in Trackers : tracker[t].at # "claim"
  /\ part = "flushes" => \A t \in Trackers \ {Only} : tracker[t] = NoTrack
  /\ part = "requests" => /\ \A f \in Drainers \ {TheOnly} : drainer[f] = NoFlush
                          /\ drops < MaxDrops

InPipeline(A) == part = "pipeline" /\ A /\ UNCHANGED <<part, trackVars>>
InTracks(A)   == part # "pipeline" /\ A /\ UNCHANGED <<part, vars>> /\ Fits'

AnalyticsInit == part \in Parts /\ Init /\ TrackingInit
AnalyticsNext == InPipeline(Next) \/ InTracks(TrackingNext)

analyticsVars == <<part, vars, trackVars>>

AnalyticsSpec == AnalyticsInit /\ [][AnalyticsNext]_analyticsVars

(* AnalyticsPipeline's Fairness and TrackingFairness; a condition for each of the two    *)
(* parts is one here, as a behaviour has one part only.                                 *)
AnalyticsFairness ==
  /\ \A t \in Flushers : /\ WF_analyticsVars(InPipeline(FlushStep(t)))
                         /\ SF_analyticsVars(InPipeline(FlushBegins(t)))
  /\ WF_analyticsVars(InPipeline(LockExpires /\ Active = {}) \/ InTracks(FlushLockEnds))
  /\ WF_analyticsVars(InPipeline(CircuitExpires) \/ InTracks(BrokenEnds))
  /\ \A p \in Procs : WF_analyticsVars(InPipeline(RedisRetried(p)))
  /\ \A t \in Trackers : WF_analyticsVars(InTracks(Works(t)))
  /\ \A f \in Drainers : WF_analyticsVars(InTracks(GoesOnFlushing(f)))
  /\ WF_analyticsVars(InTracks(SeenEnds))
  /\ WF_analyticsVars(InTracks(ScheduleEnds))
  /\ WF_analyticsVars(InTracks(\E t \in Trackers : Views(t) \/ Notes(t)))

FairAnalyticsSpec == AnalyticsSpec /\ AnalyticsFairness
=============================================================================
