\* The settings of .env.example, which gives the port.
SPECIFICATION Spec
CONSTANTS
  Word <- MCWord
  Launches <- ExampleLaunches
  Files = {f1}
  Zones <- MCZones
  Instants = {0}
  Unset = Unset
INVARIANT
  SettingsHonoured
