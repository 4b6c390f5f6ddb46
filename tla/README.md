# Verification of ISP Toolbox

TLA+ models of the parts of ISP Toolbox whose correctness depends on the order
in which things happen or on arithmetic at its limits, TLC configurations that
check them on small instances, and TLAPS proofs of properties that hold for
every instance. Paths are relative to `src/`; `W` is `src/webserver`, `F` is
`src/webserver/static/isptoolbox/src`.

To check: `tlc -workers 2 -config overlap.cfg MCSectorCoverage` (likewise for
the other configurations, see "Runs"), `tlapm SectorCoverage_proofs.tla`
(likewise for the other `_proofs` modules).

## The system

ISP Toolbox is a Django site (`W`) with Celery workers, Redis as broker and
channel layer, PostGIS as database, S3 for rasters, and a TypeScript front end
(`F`) that draws on a Mapbox map.

| component | state | operations | interacts with | what is hard |
|---|---|---|---|---|
| **Sector coverage pipeline** `W/workspace/tasks/sector_tasks.py`, `W/workspace/models/{task,viewshed,network}_models.py` | per sector one `Viewshed` row and one `AccessPointCoverageBuildings` row (task id, hash, status), tiles, buildings, the raster in S3 | save and delete a sector, save its tower, `updateSectors`, `calculateSectorViewshed`, `calculateSectorNearby` | `post_save`/`pre_delete` receivers, `send_task`, `revoke(terminate=True)`, S3, websocket messages | tasks of several saves run at once over the same two rows; revocation is asynchronous; whole-row saves; crashes; a cache hash written before the work |
| **Coverage on the map** `F/workspace/BuildingCoverage.ts`, `F/workspace/WorkspaceSectorFeature.ts`, `F/organisms/*Renderer.ts`, `ViewshedTool.ts`, `LinkCheckCoverageLoadingLayer.ts`, `W/workspace/views/rest_views.py` | per sector a map from building to feature and status; which sectors are selected, spinning, overlaid | `union`, the requests after each status message, selection, tiles | the pipeline's websocket messages, AJAX | order independence; answers that overtake each other; statuses told while nobody listens |
| **Front-end features** `F/workspace/BaseWorkspaceFeature.ts`, `BaseWorkspaceManager.ts`, `WorkspaceFeatures.ts` | features on the map, their UUIDs | create, read, update, delete over AJAX, and deletion from tables | REST views | replies in any order, 404s, cascades done twice |
| **Popups and layers** `F/molecules/*Popup*.ts`, `F/organisms/MapLayerSidebarManager.ts` | what each popup is set to and shows; rows, switches, hidden features | forms, a shared confirmation, hide and show | HTMX-like AJAX forms, the features | singletons whose subject changes while they wait; two rules that derive each other |
| **Best sector and customers** `W/workspace/views/cpe_form_views.py`, `F/workspace/WorkspaceFeatures.ts` | whom a customer is connected to, six times over | offer, connect, switch, drag, delete | REST views, the popups | copies of one fact, replies that overwrite |
| **Line of sight** `F/LinkCheckPage.ts`, `W/mmwave` | the page's profiles, the consumer's task list, a cache | link requests, tasks that start each other, profile assembly | websocket, Celery, point clouds | answers of several requests and resolutions; overlapping clouds, gaps |
| **Market Evaluator** `F/MarketEvaluatorWS.ts`, `F/organisms/MarketEvaluatorSidebarManager.ts`, `W/IspToolboxApp/consumers.py`, `tasks/MarketEvaluatorWebsocketTasks.py` | current request UUIDs, the consumer's task list, the sidebar, the size filter, the competitors' dialog, overlays | polygon request, seven tasks, paged replies, cancel, reconnect, overlay clicks | websocket, Celery, channel layer | stale replies, lost sockets, revocation, paging, averages by page, a slider rescaled under the user's hand |
| **Sessions** `W/workspace/models/session_models.py` | a graph of rows | duplicate, rename, import, export | | copying references while they are edited |
| **Solar sizing** `W/solar_sizing_tool/scripts/power_systems.py` | none | size a system over a year of irradiance | | limits in three units, a bounded balance, shared results |
| **Building outlines** `W/IspToolboxApp/tasks/building_outline_task` | none | picture to polygons | S3, a neural network | thresholds on either side |
| **Coverage of a tower** `W/workspace/tasks/{accesspoint,viewshed,coverage}_tasks.py`, `W/mmwave/consumers.py` | the same two rows as the pipeline's, per tower, and the raster | a request from the page, `generateAccessPointCoverage`, `computeViewshedCoverage`, revocation by the next request, a closed socket or a deletion | LOS socket, S3 | two tasks in any order over the same buildings |
| **DSM exports, multiplayer, task API, accounts, network comparison, data updates, storage, CMS, lambda, deployment** | rows, files, an automerge document | sequential requests and jobs | | see "Not modelled" |

What makes each correct:

* pipeline: a task is cancelled only by a later one; a cached hash can be
  traced to a task that can be cancelled; what is marked finished is current;
  every save is served.
* tower coverage: once listed, its buildings are judged by one raster, its own
  if uploads arrive, whatever failed before.
* coverage on the map: the joined status does not depend on the order and
  follows the rules of its comment; once all is quiet the selected sector's
  buildings and tiles are those of its present parameters, and nothing spins.
* features: what is drawn is what is stored once the page has settled, and it
  does settle; an open form is of the feature its popup is set to and acts on
  it; rows and switches tell what is drawn and visible.
* customers: the form offers the nearest sector that sees the place; the copies
  of a customer's sector agree once the replies are in.
* line of sight: tasks of a request refine and never overlap; a user who waits
  sees the profile of the link he drew; loading ends; a profile follows its
  link, newest cloud first.
* Market Evaluator: the sidebar shows numbers of the current request only, the
  final count is of the whole area and of what the filter lets through, and
  each request is answered or ends in an error.
* sessions: a copy is whole and stands alone; links do not leave their session.
* solar sizing: the system chosen is the cheapest that suffices, within its
  controller's limits, credited with no more than a battery a watt-hour larger could deliver.
* outlines: the rectangles kept are building, apart, and none is lost.

## Modules

| module | what it is |
|---|---|
| `SectorCoverage` | the pipeline of one sector; state, actions, properties |
| `TowerCoverage` | the coverage of a tower without sectors: two tasks and the rows they share |
| `SectorCoverage_proofs` | theorems `TypeCorrect`, `RevocationOrdered`, `HashesAreAccountable`, `ResultsAreCurrent` |
| `CoverageUnion` | `BuildingCoverage.union` as the loop it is |
| `CoverageDisplay` | the page's side of the pipeline: status messages, requests, selection, spinners, overlay |
| `WorkspaceMap` | towers, customers and links as features and rows |
| `FormPopup` | the popups' forms and the shared dialog |
| `LayersSidebar` | the list of layers and its switches |
| `SectorCustomers` | which sectors see a place; connecting and switching customers |
| `LinkProfile` | a link's request from page to tasks and back |
| `LidarEngine` | a profile put together from point clouds |
| `WorkspaceSessions` | copies, imports and edits of sessions |
| `SolarSizing` | the sizing script |
| `BuildingOutline` | lines and pixels to rectangles |
| `MarketEvaluator`, `MarketEvaluator_proofs` | the market evaluator from selection to sidebar; six theorems, one the refinement |
| `AreaCount` | what the count of buildings promises: the abstract specification `MarketEvaluator` implements |
| `BuildingFilter` | the slider of building sizes and what follows from it |
| `AreaStatistics` | average income and the competitors' dialog |
| `MapOverlays` | the overlays, and areas and towers added from them |
| `Server_proofs` | theorems about `WorkspaceSessions`, `TowerCoverage`, `SolarSizing` and `BuildingOutline` |
| `SectorPage_proofs` | theorems about `FormPopup` and `CoverageDisplay` |
| `SectorCustomers_proofs` | theorems about `SectorCustomers` |
| `MarketLayers_proofs` | theorems about `LayersSidebar`, `MapOverlays`, `AreaStatistics` and `BuildingFilter` |
| `LosPage_proofs` | theorems about `LinkProfile`, `LidarEngine` and `CoverageUnion` |
| `Inductions` | induction over numbers and finite sets, and what folds and recursive functions compute: the lemmas the proofs about data rest on |
| `MCSectorCoverage`, `MCCoverageUnion`, `MCMarketEvaluator` | environments and symmetry of one module |
| `MCServer`, `MCSectorPage`, `MCLosPage`, `MCMarketPage` | several modules checked in one run |

`PROJECT.json` maps every definition to the lines it stands for.

The last four modules join modules that share no state: a behaviour is one of
the parts, chosen initially (`part`, `job`), and the others are at rest. Their
joint state space is the sum of the parts', and each property is about its own
part. Where a component is another's environment (the server, to the page), the
module that needs it has the replies it can get; the rows of `WorkspaceMap` and
`SectorCustomers`, the tasks of `CoverageDisplay` and `LinkProfile`, are such.

Most modules of the front end have a constant that says what may go wrong
together (`Sky`, `Weather`, `Temper`, `Setting`, `Manner`, `Whim`, `Usage`,
`Habit`, `Mishap`; `Env` in the pipeline and the evaluator), with a bound on the user's
moves. Each property names what it holds under. What it excepts is not
impossible: it is what breaks it, and "hazards" in `PROJECT.json` says so.

### SectorCoverage

One sector; its saves are numbered, and save `n` has two tasks,
`<<"viewshed", n>>` and the one it sends when it is done, `<<"coverage", n>>`.
A sector's parameters are a circle (place, heights, radius) and a wedge (heading
and azimuth). The viewshed's hash is made of both, that of the coverage row of the
circle only (`ViewshedHash`, `CoverageHash`): a change of the wedge is a hit on a
coverage row that is still there. A raster, a tile set and a building's verdict are
the parameters they were computed from.

* `db[k]` is the row of table `k`, or `NoRow`. A row is a record of primary key,
  task id, hash and status. Tasks hold private copies (`w[x].row`,
  `w[x].buf`), read whole and saved whole, because that is what a Django
  instance is: `SaveRow` updates the row with that key, inserts the row when
  there is none, and fails on the one-to-one constraint or on a sector that is
  gone.
* `w[x].pc` is the statement task `x` is at. Every access to the database, S3
  or the broker is an action; what lies between two accesses belongs to the
  first. Each action is one statement of `sector_tasks.py` (or of the method it
  calls), in the order of the code, with its exceptions: `Raise` goes to the
  wrapper of `_sector_task`, which reports the failure through the viewshed row
  and ends the task.
* `revoked[x]` is who revoked `x`. `Kill` may happen at any statement of a
  revoked task and runs no handler, as SIGTERM does; a revoked task may also
  end before the revocation reaches it.
* `web`, `towerJobs`, `Request` and `Edit` are the web requests: the receivers
  of a new sector run one after the other (task first, rows later), a save
  sends a task, a tower save an `updateSectors` job.
* `stamp` and `clock` are history variables: when a task wrote its id into its
  row.

Simplifications: the loops over tiles, pages of buildings and buildings are one
step each (each writes rows of one parent and reads nothing others write in
between but that parent); the progress reports between two computations are
one; the tower's fields, read lazily with the hash, are read with the sector's;
the `Viewshed` and coverage rows of a tower are `TowerCoverage`'s. `Env` names what may go wrong: `overlap`, `create`, `fail`, `crash`,
`delete`, `lostwrite`.

### CoverageUnion

The state of the loop: the responses, how many are joined, the union so far. A
building of a union is a pair of a feature (reduced to its `serviceable`
property, which the paint rule reads) and a status.

### MarketEvaluator

A browser, a consumer and its tasks, with two queues between them.

* Selections are numbered; the number is the request's UUID, and `current` is
  what `currentRequests` holds for polygons, 0 after `cancelCurrentRequest`.
* `SelectArea` and `SelectNothing` are the two ends of `sendCoverageRequest`.
  What they do depends on `socket`: an open one takes the request, a closed one
  drops it, a connecting one throws before the send event is published.
* `OnMessage` is the filter of `onmessage`; it only publishes. `Deliver` is
  PubSub's delivery in the order of publication, one disjunct per topic:
  the sidebar's handlers, the renderer's, and the size filter, which hears of
  new bounds through one more event.
* `sidebar` keeps the list of buildings, the number displayed and its mark
  (loading, final, error). A reset clears the number and not the list, as in
  the code. `overlay` is the renderer's own list. A page of buildings stands
  for its buildings.
* `slider` is what arithmetic leaves of the filter's two thumbs: numbers,
  infinities, NaN. A filter that is set passes the buildings its bounds were
  taken from, the tightest it can be; the user's own moves are `BuildingFilter`'s.
* `HandleRequest`, `HandleInvalid` and `HandleRaises` are the three ways
  through `standard_polygon_request`; all revoke first. `HangUp` is the end of
  a connection, from whichever side: queues are lost, tasks are orphans.
* `SendPage` is one round of `genBuildings`' loop, query and send together (a
  termination between the two is one before them). `SendOSM`, `QueryFails`,
  `TimeOut`, `TaskFails` and `Terminate` are the other ways a task goes on or
  ends.
* `announced` is a history variable: the request the sidebar was last reset
  for. The properties compare what is displayed with it, since this is what
  the user has been told the numbers are of.

The two tasks that send more than one message are the building task, which is
modelled here, and the income task, which is `AreaStatistics`'; all tasks but the first
are one task with one answer. `Env` names what may go wrong.

### TowerCoverage

The coverage of a tower without sectors, which ordinary pages show. A request
starts two tasks, `<<"list", n>>` (`generateAccessPointCoverage`) and
`<<"see", n>>` (`computeViewshedCoverage`), side by side. A tower's form is its
place, height and radius, one number, also its hash, raster, tiles and verdict.
`listing` and `sight` are the two rows, `nearby` the buildings, `rasterOf` the
file in S3, whose key is the tower's; tasks keep private copies of rows in
`crew[x].row`, as in `SectorCoverage`. An upload of the raster may fail, which
`writeS3Object` only logs: the raster of an earlier form is then what the
buildings are judged by. `Mishaps` says what may go wrong together and how many
requests there are.

### CoverageDisplay, FormPopup

The page's side. `CoverageDisplay` has the page and, for each sector, a task cut
down to the steps the page can tell apart; what it holds is one record,
`display`, and what it waits for a sequence of AJAX requests. Renames that
empty a coverage, and requests that overtake each other, may leave the page with
less or older coverage than the server has: `SelectedCoverageIsCurrent` is about
skies without them, and the hazard at `WorkspaceSectorFeature.ts:117` says so.
`FormPopup` is about three singletons and one dialog shared by them. The dialog
loses its handler once a tower has asked through it, and
`responseMatchesCurrent` compares parameters with themselves
(`LinkCheckBaseAjaxPopup.ts:157`): the properties hold for users who wait and do
not mix the dialog's uses, and the model reaches what happens to others.

### WorkspaceMap, LayersSidebar

`WorkspaceMap` has a tower, customers and links. `rows` is the server, `map` the
page: what is drawn, which UUIDs it knows, the AJAX requests in flight with what
their handlers will do. The server deletes in cascade, the page repeats the
cascade feature by feature. `LayersSidebar` has the rows and switches over
features that are hidden and shown by two rules that each run in one direction.

### SectorCustomers

Sectors and the places of customers on a circle of `Circle` bearings, what a
sector's coverage says of each place, and the rows, features, properties and
objects that record whom a customer is connected to. A form is one step here,
its asynchronous loading being `FormPopup`'s; forms are not asked for while a
sector is on its way out; a dragged customer stays in its place. The geocoder
replies in any order, the server's other replies in theirs.

### LinkProfile, LidarEngine

`LinkProfile` follows a request from `LinkCheckPage` over the socket to the
consumer, its terrain task and the chain of LiDAR tasks, and back to the
callbacks; a profile is the link it was taken of. A zoom asks for a part of the
link, or for all of it again; an elevation service that fails one is answered as
if it were of the whole link, without points, and empties the page's terrain.
`LidarEngine` is one such
task's profile: the link is cut into cells, a cloud is a year, the cells it
covers and the points it has; heights are named by the points they come from.
Boundaries never touch the link in a single point, and the rounding of floats
is left out (`int()` of exact numbers remains).

### WorkspaceSessions, SolarSizing, BuildingOutline

`WorkspaceSessions` copies and imports row by row, a row in a transaction of its
own, with edits between; a row's keys may lead into another session, which is
finding 6. A row has a kind, a name within its session, and the keys its kind
has columns for (`WellKeyed`): a sector's tower, a customer's tower or sector, a
link's two ends. A deletion takes along what refers to the row, three rounds of
it, since keys lead from links to customers to sectors to towers and no further. `SolarSizing` goes from the library to the chosen system; the battery
is simulated over each series of fluxes; numbers are whole and percentages kept
as such. `BuildingOutline` goes from the intersections of lines to rectangles,
with the thresholds of the source.

### AreaCount, BuildingFilter, AreaStatistics, MapOverlays

`AreaCount` is the abstract specification: three variables, the request taken
up, how its count is marked, what has been gathered. `MarketEvaluator` contains
its instance (`INSTANCE AreaCount WITH ...`) and `ImplementsAreaCount` is its
specification under that mapping. `BuildingFilter` has JavaScript's numbers as
fractions with NaN and infinities, sizes in half square feet and limits scaled
to small ones; PubSub delivers at once there (its order is `MarketEvaluator`'s
matter). `AreaStatistics` has the income task's pages and the two halves of the
competitors' dialog; which request a message answers is `MarketEvaluator`'s, so
here the tasks of an earlier request are gone; page averages are whole and the
rounding down to thousands is left out. `MapOverlays` has the switches, the
popup under the mouse, and what clicks add.

## Runs

| run | module | properties | bounds | result |
|---|---|---|---|---|
| `overlap` | `MCSectorCoverage` | `TypeOK`, `RevocationFollowsRegistration`, `CachedHashIsAccountable` | 2 circles, 1 wedge, 2 saves that overlap, the first task possibly before its rows exist; failures, crashes, lost uploads | holds, 1.8 million states |
| `spaced` | `MCSectorPage` | pipeline: `FinishedResultsAreCurrent`; tower: `VerdictsAreOfTheTower`; sessions: `LinksStayInside`, `UntouchedCopyIsWhole`; solar: `AvailabilityIsCautious`, `ChosenIsBest`; outlines: `GridFollowsTheLines`, `OutlineIsBuilding`; display: `SelectedCoverageIsCurrent`, `SpinnersEnd`, `OverlayIsOfTheSelected`; popups: `PopupShowsItsFeature`, `FormsActOnTheirFeature`; customers: `OfferIsTheBest`, `LinksReachTheServer` | 2 circles, 2 wedges, 3 saves, each when the earlier ones have ended, failures, crashes; a tower of 2 forms with 3 requests, uploads lost or not, or 2 with other trouble; 3 sessions of 7 rows; 2 panels, 3 controllers, 4 data points; 27 pictures; 2 sectors on the page; 5 features with popups; 2 customers and 2 sectors | holds, 826 000 states |
| `served` | `MCSectorCoverage` | `EverySaveIsServed` | 2 circles, 2 wedges, 3 saves, deletion at any time, no failures | holds, 7 900 states |
| `cached` | `MCSectorCoverage` | `CachedMeansComputed` | 2 circles, 2 wedges, 2 saves, failures | violated: finding 1 |
| `lostsave` | `MCSectorCoverage` | `SavedSectorIsCovered` | 2 circles, 2 wedges, 2 overlapping saves, nothing fails | violated: finding 2 |
| `union` | `MCLosPage` | union: `UnionFollowsRules`; links: `RefinementIsAChain`, `PatientSeesTheLink`, `LoadingEnds`; profiles: `ProfileFollowsTheLink`; map: `MapShowsTheServer`, `RequestsEnd` | 2 buildings in up to 3 coverages; 2 links, 2 requests, a socket that closes; 2 or 3 clouds over 4 cells; a tower, 2 customers, 2 edits and their drags | holds, 221 000 states |
| `drawn` | `MCCoverageUnion` | `ServiceableIsDrawn` | 2 buildings, up to 3 coverages | violated: finding 3 |
| `evaluate` | `MCMarketEvaluator` | `TypeOK`, `RunningTasksCanBeRevoked`, `AnswerIsOfTheArea` | 2 selections, 1 page, both kinds of task, everything in `Env` | holds, 3.7 million states |
| `exact` | `MCMarketPage` | buildings: `FinalListIsExact`, `MapHoldsTheList`, `RequestIsAnswered`, `ImplementsAreaCount`; filter: `FigureTellsTheFilter`; statistics: `StatisticsAreOfTheArea`; overlays: `SwitchesAndPopupTellTheMap`, `NothingIsAddedTwice`, `LastClickIsStored`; layers: `RowsTellTheMap`, `TowerGoesWithItsSectors` | 2 selections of 2 pages, deleted areas, time limits, lost connections; 4 areas and 4 moves of the filter; incomes of up to 4 buildings in pages of 2; 3 shapes and a mast, up to 5 clicks; 2 towers, 3 sectors, an area, 4 turns | holds, 327 000 states |
| `emptyarea` | `MCMarketEvaluator` | `CountIsOfTheArea` | 2 selections, areas of 0 or 1 page | violated: finding 4 |
| `incomplete` | `MCMarketEvaluator` | `FinalListIsExact` | 1 selection, 1 page, failing queries | violated: finding 5 |
| `copies` | `MCServer` | `CopyStandsAlone` | 3 sessions, 1 edit | violated: finding 6 |

Each configuration is named after its run.

Why the bounds are enough. Two circles and two wedges suffice for the pipeline: the
properties compare them for equality, and a third could only stand for "also not that
one". `overlap` has one wedge, because its properties are about who vouches for a
hash: a save that changes the wedge only is to the coverage row what one that changes
nothing is. Two saves give every pair of tasks that can meet; the third save
of `spaced` and `served` lets a deletion, a stale "Complete" and a return to the
first parameters follow a finished pair. A tower's third request can return to
the first form over what the second left; with failures two requests show what
the second makes of the first's remains. Two buildings in three coverages give
a building every sequence of three verdicts next to another one. Two selections
give an area and the one before it, whose messages, tasks, events and lists are
what can be mistaken for its own; nothing in the code looks further back. Two
pages and the empty one give a message that begins the list, one that continues
it and one that ends it. Two links and two requests give the old answer that
could pass for the new one, with each of the resolutions that can overwrite
another. Two clouds anywhere on four cells overlap, nest, touch and leave gaps in
every way; three without inner gaps let the middle one be unreadable. Two
customers and a tower give a cascade with a part that stays. In a session of a
tower, a sector and a customer of each, every kind of row refers to every kind
it can. Four data points fill and empty the small battery. Buildings with a
corner give rectangles that are full, empty and in doubt.

Each kind of trouble has its own constant value rather than all at once
(`EachSky`, `EachTemper`, `EachSetting`, `EachManner`, `EachWhim`, `EachUsage`,
`EachHabit`, `EachMishap`, `CalmAndOther`): the user's moves are bounded
separately for each, and the guards of the properties name the kinds they hold
under.

`CHECK_DEADLOCK FALSE`: users stop (bounds on saves, selections, edits, moves),
and a union, a profile, a sizing or an outline that is computed stands still.

Symmetry is used where the values are interchangeable and the run has no
temporal property: the two other titles of sessions in `spaced`
(`ServerSymmetry`). In `overlap` and `spaced` the first parameters of the sector are
fixed (`FirstParams`): with circles and wedges that are interchangeable, every other
beginning is a renaming of this one.

### What four of the properties say

* `FinishedResultsAreCurrent`. A finished viewshed whose hash is the sector's has
  its tiles and raster. Of a coverage row marked "Complete" less can be asked: its
  hash says nothing of the wedge, so after a save that turns the sector, and a worker
  that dies before it drops the row (`sector_tasks.py:87`), the row is still there,
  Complete, with a hash that is the sector's, over the old wedge's buildings. What
  holds, where saves wait for each other, is that it lists the buildings of *one* sector its hash is of, judged
  by that sector's raster; it is the present one once a finished viewshed of the
  present parameters stands beside it.
* `VerdictsAreOfTheTower`. All buildings are judged by the raster that is stored.
  That raster is the tower's own unless an upload was lost.
* `PatientSeesTheLink`. The point cloud and the obstructions are of the selected
  link, and so is the terrain, unless an answer without terrain has emptied it; the
  obstructions then remain those computed before.
* `AvailabilityIsCautious`. The docstring of the simulation (`power_systems.py:690-695`)
  bounds the stored energy between 0 and the capacity and counts the points at which
  there is some. The code bounds it by -1 (735-737) and counts points at 0, so that a history
  0, cap, 0 is credited with 3 points of 3 where the docstring gives 2. It is therefore
  *not* true that a system is credited with no more than the docstring's account of its
  own battery. What is true, and checked and proved, is that the difference is worth no
  more than one watt-hour of capacity.

### Fairness

* `served`: weak fairness of the request's remaining receivers, of
  `updateSectors` and of each task's next statement. A Django request runs its
  receivers to the end, and Celery workers take queued messages and run on.
  There is none on edits, deletions, failures, crashes, or on the delivery of a
  revocation.
* `exact`: weak fairness of the browser's message handler and of PubSub's timer
  (an event loop runs what is queued), of the consumer taking the next request,
  and of each task's next send. None on the user, on connections, time limits,
  failures or terminations. `RequestIsAnswered` speaks of requests on their way
  to the consumer and lets go of those the user leaves, whose connection is
  lost, which the consumer refuses or of which a task dies: nothing in the code
  answers these.
* `union`: weak fairness of the socket's opening (it reconnects on a timer), of
  the page's reception, of the tasks of a link (`LinkFairness`), and of the
  system's steps of the map, that is requests served and replies handled
  (`MapFairness`). None on the user, closures, failures or terminations.

### The refinement

`AreaCount` is what a user may rely on: a request is taken up, gathered while
the count is marked as loading, and ends final over all of its buildings, or in
error, once. `MarketEvaluator` reaches the same through two queues, a filter by
UUID, an offset per page and a list that a reset does not clear. Under
`ImplementsAreaCount` every step of it is one of the abstract ones or a
stutter, in the environment of `exact`; under failing queries it is not, which
is finding 5. TLC checks it in `exact`, and `EvaluatorImplementsAreaCount` proves it
for any number of selections, pages and tasks.

## Findings

1. `cached`: the hash is stored before the work (`sector_tasks.py:95`), while
   `task_models.py:79-81` says it tells whether the result has been computed.
   After a failed task the next save with the same parameters is a cache hit on
   nothing. (The tower's pipeline stores it after the work,
   `viewshed_models.py:211`, and `VerdictsAreOfTheTower` depends on that.)
2. `lostsave`: `network_models.py:693` says that saving a sector calculates its
   coverage. Two overlapping saves may both end in an IntegrityError: a stale
   `viewshed.save()` (`sector_tasks.py:66`) re-inserts the row the other task
   has just deleted.
3. `drawn`: a building that one sector serves is drawn with the mark of the last
   sector joined (`BuildingCoverage.ts:88-91` against its comment at 72). In the
   run a coverage with the status serviceable is joined with one whose status is
   unknown, and the building is drawn unknown; an unserviceable one in its place
   is drawn unserviceable.
4. `emptyarea`: bounds of no buildings turn the size filter's thumbs into NaN
   (`MultiThumbSlider.ts:64-65`), and areas with buildings count none until the
   filter panel is opened, against `MarketEvaluatorTooltips.py:10`. It takes an
   area without buildings, or the last, empty page of an area the user has just
   left (the renderer's list is cleared by then).
5. `incomplete`: a failed query looks like the last page
   (`MarketEvaluatorWebsocketTasks.py:44-51`), and what was counted until then
   is displayed as final.
6. `copies`: `WorkspaceMapSession.duplicate` "Duplicates the session and all
   foreign keys" (`session_models.py:236`), but its loops re-key only the
   session (257): a copied sector or customer keeps the key of the original's
   tower or sector, and is deleted with it.

What the passing properties except is reachable too; "hazards" in `PROJECT.json`
has it by line. In three places a comment or docstring says otherwise, though no run
is about them: `cpe_form_views.py:104-105` has the closest sector highlighted "if
nothing is serviceable", and the code takes the first of an unsorted list (117);
`BaseWorkspaceFeature.ts:195` has the callback of a deletion used "on successful
deletion or 404", and the branches are swapped (219-229); and
`power_systems.py:690-695` bounds the energy by 0, see above. The others
contradict no document. The chief ones: coverage lost by a rename or replaced by an overtaken answer; a
popup that shows another feature's form; a confirmation dialog without handler;
a customer whose row keeps the old sector after a switch; switches inverted by
an early click; a tower's buildings that get no verdict, or an old hash over
wrong buildings after a listing was cut short; samples filled with a neighbour's
height; thumbs that cross, sorted by a comparator that looks at one argument; an
income loop that starts again after an error.

## Proofs

Every theorem is `Spec => []P` (or, for the refinement, `Spec => Abstract`) for
every value of the constants that its module's assumptions allow, and names the
property a run checks. Each comes from an inductive invariant, which TLC checked
before it was proved: it holds initially, every action keeps it, it implies the
property.

**The pipeline of a sector** (`SectorCoverage_proofs`)

* `TypeCorrect`: `TypeOK` is inductive once helper lemmas give the type of each
  helper's result.
* `RevocationOrdered`: the property alone is not inductive, since a task revokes
  whatever the row it read names. `RevocationInv` adds that rows, and the private
  copies tasks hold of rows (which may be saved back later), name only tasks that
  have registered; that a task before its registration has no stamp; that
  subroutines return where they were called from; that stamps do not exceed the
  clock; and that the second task of a save does not start before the first has
  ended.
* `HashesAreAccountable`, in every environment (`AccountInv`): a row's hash is
  vouched for by a task it names, by a revocation or by the work being done. What
  has to be said is that every *copy* of a row a task may still save is
  accountable too, and that what vouches never goes away.
* `ResultsAreCurrent`, where saves wait for each other and uploads arrive
  (`Waiting`): with one task under way at a time (`OneAtATime`), what rows, tiles
  and buildings hold follows from the statement that task is at (`Progress`), and
  what finished rows hold between tasks is whole: a viewshed of its hash
  (`ViewshedIsWhole`), a coverage of *some* parameters its hash is of
  (`CoverageIsWhole`), which are the viewshed's when that is finished, since a
  viewshed task drops the coverage row before it computes.

**The market evaluator** (`MarketEvaluator_proofs`)

* `TasksStayRevocable`: inductive once every task is known to have a state
  (`RevocableInv`). The step that matters is `HandleRequest`, which forgets a list
  only after it is revoked.
* `EvaluatorTypeCorrect`: every queue is a sequence of what its handlers know.
* `AnswersOfTheArea`, in every environment (`AnswerInv`): an answer that is
  published is of the request *in force* at its place in PubSub's queue, that is of
  the last send event before it, or of the one the sidebar announces.
* `FinalListsAreExact`, `MapsHoldTheList` (`CountInv`): each message and event of
  buildings fits its place, so that the pages listed, published, on the socket and
  still to be queried are the area's, in order and once; after the last page nothing
  follows (`Silent`); the renderer's list is the sidebar's whenever the request
  announced is the current one and its count has begun (`MapShown`).
* `EvaluatorImplementsAreaCount`: the initial states map to initial ones and, in
  states of that invariant, every step to `TakeUp`, `Gather`, `Finish`, `Fail` or a
  stutter.

The last three assume `WholePages`: queries do not fail and OpenStreetMap's
buildings, which come without offset, are not used. Without it they are false: finding
5, and the hazard at `MarketEvaluatorWebsocketTasks.py:58`.

**Sessions and towers** (`Server_proofs`)

* `LinksStayInTheirSession` (`LinksInv`): rows, and rows a job has read, have the keys
  of their kinds; in an imported session only links have keys; a link's keys stay in
  its session; and no key is left without its row, which needs the cascade to be closed
  after three rounds.
* `UntouchedCopiesAreWhole` (`CopiesInv`): what a copy has so far are the rows of the
  kinds before the one it is at, and some of that kind.
* `TowerIsJudgedByItsRaster` (`TowerInv`): with the two tasks of one request at work,
  each one's place in its statements says what the rows and the buildings hold; the
  hash is stored after the work, so that a row that names a form was made of it, with
  the raster as an exception where uploads may be lost; buildings are judged by the raster
  that is stored, whose key nobody else writes meanwhile.

**Computations** (`Inductions`, `Server_proofs`, `MarketLayers_proofs`)

The library's induction theorems cannot be used here, since they take an operator as a
parameter. `Inductions` states induction with sets instead (`Upwards`: a set that has 0
and with `i - 1` also `i` has every number), from the theorem that an order is well
founded, and derives from it that functions defined by recursion exist (`SetRecursion`)
and that a fold runs through its sequence (`FoldExists`, `FoldRuns`, `SumsExist`). With
these a loop over data of any length has an invariant like any other:

* `NoRosierThanPromised`, `CheapestOfTheAvailable` (`SolarInv`): the charge simulated,
  which the code starts empty and bounds by -1 and the capacity, stays below that of a
  battery one watt-hour larger that starts full and is bounded by 0, hour by hour, so that
  a point counted at 0 is one at which that battery has some; the systems kept are within the limits
  of their controllers, of which the voltages, being ascending, stay where they are when
  they are sorted.
* `GridsFollowTheLines` (`GridInv`): grouping ascending coordinates gives groups of which
  each ends before the next begins and none is wider than the limit (`Grouped`), so that
  rounded means ascend, inside their groups' bounds, even where rounding is to the even
  number; the frame is added without a line twice.
* `OutlinesAreBuilding` (`OutlineInv`): rectangles of a grid share no pixel, quarters lie
  in what they are cut from, and a share that each of two rectangles reaches is reached
  by both together.
* `StatisticsOfTheArea` (`StatisticsInv`): the total is the sum over the buildings up to
  the last one of the last page, and what has come of the dialog's halves is of the area
  selected.
* `FiguresTellTheFilter` (`FilterInv`): the range told of the slider is where its thumbs
  are, once there are limits that are numbers (`Orderly`: no thumb is below zero, so the
  sort moves none), and thumbs that nobody moved are at their ends (`AtEnds`). New limits
  keep both: a thumb at r goes to r * l / r, which is l in lowest terms (`Proportions`),
  and one that is no number stays none, so that the limits of another area, of an error
  or of no buildings never leave it anywhere else. Between the ends is every building,
  since limits are rounded outwards.

**Layers and overlays** (`MarketLayers_proofs`)

* `RowsFollowTheMap`, `TowersGoWithTheirSectors` (`LayersInv`): every handler amounts to
  showing one set of features and hiding another (`Flipped`), and the two rules that
  derive towers from sectors and sectors from towers end in the same sets.
* `SwitchesTellTheMap`, `AddedOnce`, `LastClicksAreStored` (`OverlaysInv`): requests are
  numbered and no number is used twice (`Numbered`), one add is under way for a shape
  (`OneAtATime`), and what the last click asked for is stored or on its way
  (`LastIsComing`).

**Links** (`LosPage_proofs`)

* `RefinementsAreChains` (`ChainInv`): requests are received in the order of their
  numbers, each once; a LiDAR task that found a profile starts one other, finer one.
* `PatientUsersSeeTheLink` (`PatientInv`): what is under way is of the link selected, so
  that callbacks that compare nothing put together profiles of one link; a chart that
  lost its terrain to a failed zoom keeps obstructions of the link (`ShownIsThere`).
* `ProfilesFollowTheLink` (`EngineInv`): the segments part the cells that are no longer
  left, and each is of a cloud of which no newer one has a cell of it (`SegmentsInv`,
  `SurveyInv`). Sorted, such segments lie side by side (`Along`), so the samples joined
  come in the order of their runs and rounding takes less than one off each (`Sampled`);
  in samples in that order the measured ones nearest to a gap are of the runs nearest to
  it (`SideBefore`, `SideAfter`). That a sorted order exists is proved by induction over
  the set (`LineUp`), what the fold computes by `FoldRuns`.

**The sector page** (`SectorPage_proofs`)

* `PopupsShowTheirFeature`, `FormsActOnTheirs` (`PopupInv`): of a user who waits, one
  request is under way, for what its popup is set to (`OneByOne`, `OneOpen`,
  `OwnForms`), and a dialog is about the feature he was asked about (`Asked`).
* `SpinnersStop`, `CoverageShownIsCurrent`, `TilesAreOfTheSelected` (`DisplayInv`): what
  is out of date is *due*. A tower that spins has a task at work or its completion on
  the socket (`Spins`); the selected sector's buildings are shown, or a task, a
  completion or a request is still to come (`Covers`); so are its tiles, and a message
  about older tiles has a newer one behind it (`Overlies`). Common to the three is that
  a sector has one form on its way and no task while it is (`Grounded`), which is what
  makes a reply that is handled late harmless. Each of the three has its own sky.

**The best sector** (`SectorCustomers_proofs`)

* `CustomersTypes`: each handler's page and requests are typed, through the fold over the
  customers of a sector that is deleted.
* `TheOfferIsTheBest` (`CustomersInv`): the overall status of a list is that of its best
  sector, whichever order the database has (`StatusOfTheList`); what was right when the
  form was made stays so while it is open, since no sector is then on its way out.

**Joining coverages** (`LosPage_proofs`)

* `UnionCorrect`: the rules quantify over the coverages joined so far, so that together
  with the type invariant they are inductive as they stand.

### Assumptions

| assumption | what it says | why the code justifies it |
|---|---|---|
| `ParamsAssumption`, `MaxTasksAssumption`, `EnvAssumption`, `BoundsAssumption`, `KindsAssumption`, `MaxCoveragesAssumption`, `MaxLinkAsksAssumption`, `SkiesAssumption`, `TempersAssumption`, `WhimsAssumption` and the like | constants are of their kind; bounds are natural numbers | definitions |
| `NetworksAssumption` | a network to be copied is rows of one session with the keys of their kinds, which lead to rows of it | columns and foreign keys of `network_models.py` |
| `FilesAssumption` | a file is a sequence of the placemarks the importer tells apart | `session_models.py` |
| `FeaturesAssumption`, `ShapesAssumption`, `UuidsAssumption`, `SectorsAssumption` | features of different kinds are different | UUIDs |
| `LinksAssumption` | the length of a link allows a finest resolution, and a part of the link no coarser a one | a part of a link is no longer than it, and `getLiDARProfile` caps the resolution by length |
| `SurveysAssumption` | a link has a length, samples are asked for, and a survey is a sequence of clouds with a year, cells and points of the link | the query returns a list; clouds that touch no part of the link are not among it |
| `TowerAssumption` | forms and requests are numbered | definitions |
| `SettingsAssumption` | bearings lie on a circle, an azimuth has a whole half; customers and sectors are finitely many | degrees are floats, of which there are as many as one likes; a session's rows |
| `LibraryAssumption` | numbers of the libraries are natural, lives and voltages positive, a controller lists as many powers as voltages, a series of fluxes is not empty | `solar_sizing_tool`'s fixtures; a year has hours |
| `FilterAssumption` | sizes are natural, in half square feet; an area is a sequence of finite pages; a thumb is dragged to a fraction above or at zero | areas are computed from geometries, query results are lists; a place between two limits, or a multiple of the lower one, is not negative |
| `StatisticsAssumption` | incomes of a page of any size divide evenly; an income is natural, or missing | averages are whole here, which the model says (`NextIncomePage`) |
| `OutlineAssumption` | lengths and thresholds are positive; pixels and intersections lie in the picture, an intersection has both coordinates | `line_operations.py` keeps only those inside |
| `WholePages`, `Waiting` | of single theorems, see above | the environments of the runs `exact` and `spaced` |

What a property excepts (a kind of trouble in its first
line) its theorem excepts too, no more.

### Model-checked only

* Liveness: `EverySaveIsServed`, `RequestIsAnswered`, `LoadingEnds`, `RequestsEnd`.
  Liveness under fairness, and `ENABLED`, are out of the prover's reach.
* `MapShowsTheServer` and `LinksReachTheServer`: their invariants have to say of every
  request on its way, and of every reply that has not come, what it will still change,
  through handlers that send more. They are not written yet.

## Not modelled

Each component's note in `PROJECT.json` says what of it is left out.

* DSM exports and the tile engine, rasters, masks, satellite tiles, the neural
  network, line detection: computation in PDAL, GDAL, rasterio, TensorFlow and
  OpenCV. What they leave behind, or that they fail, is modelled.
* Multiplayer editing: a prototype around automerge, whose convergence is the
  library's.
* Task API, accounts and guest sessions, network comparison, data updates,
  storage, CMS, lambda edge, deployment: sequential requests and jobs over a
  library's machinery, with no state of their own between steps.
* Within modelled parts: KMZ exports, sharing, thumbnails, area numbering;
  links between sectors that become customers (`createSectorCPEFromLngLat`);
  population and speed of an area beyond one answer; names, colours and layout.

## What remains

1. Proofs: `MapShowsTheServer` and `LinksReachTheServer`, whose invariants are of the kind
   of `DisplayInv`: what differs between page and server is on its way.
2. Models: the conversion of links to customers of a sector; what becomes of an
   export while a session is edited; the line operations of the building outlines.
   The map covers about an eighth of the implementation's lines: most of the rest is
   views, forms, settings, rendering and geometry without state between calls.
