\* Launches one after another, with settings from every source.
SPECIFICATION Spec
CONSTANTS
  Word <- MCWord
  Launches <- MCLaunches
  Files = {f1, f2}
  Zones <- MCZones
  Instants <- MCInstants
  Unset = Unset
INVARIANTS
  TypeOK
  SettingsHonoured
  FilesSurviveRestart
  LeftoverOnlyAfterSwitch
  ListedNewestFirst
